---- MODULE Spec2Model ----
(***************************************************************************)
(* Shipment orchestration core of python-sendparcel: the guarded status    *)
(* machine (fsm.py, driven by the `transitions` Machine), the plugin       *)
(* registry lookup (registry.py) and the flow orchestrator (flow.py).      *)
(*                                                                         *)
(* One shipment instance is followed.  It is either handed to the core by  *)
(* the caller (any status, any field values) or created by the             *)
(* orchestrator's create_shipment.  Every orchestrator operation is one    *)
(* action: within one invocation the steps run strictly in sequence.       *)
(* `last` records what the operation in progress was given, what it found  *)
(* and what it answered, so that the properties below are state            *)
(* predicates; it is Idle between two operations.                          *)
(***************************************************************************)
EXTENDS Integers, Sequences, FiniteSets, TLC

VARIABLES shipment, store, registry, last, entry_points, tasks, path

vars == <<shipment, store, registry, last, entry_points, tasks, path>>

-----------------------------------------------------------------------------
(* enums.py: ShipmentStatus (STATUS_NEW is ShipmentStatus.NEW) *)

STATUS_NEW == "new"
CREATED == "created"
LABEL_READY == "label_ready"
IN_TRANSIT == "in_transit"
OUT_FOR_DELIVERY == "out_for_delivery"
DELIVERED == "delivered"
CANCELLED == "cancelled"
FAILED == "failed"
RETURNED == "returned"

ShipmentStatus ==
    {STATUS_NEW, CREATED, LABEL_READY, IN_TRANSIT, OUT_FOR_DELIVERY,
     DELIVERED, CANCELLED, FAILED, RETURNED}

-----------------------------------------------------------------------------
(* exceptions.py and the foreign errors the core meets *)

Exc(type, msg, orig) == [type |-> type, msg |-> msg, original_error |-> orig]

NoExc == Exc("", "", "")

\* SendParcelException and its subclasses: the domain errors
SendParcelException ==
    {"SendParcelException", "CommunicationError", "InvalidCallbackError",
     "InvalidTransitionError", "ShipmentNotFoundError",
     "ProviderCapabilityError"}

\* subclasses of httpx.HTTPError
HTTPError == {"ConnectError"}

-----------------------------------------------------------------------------
(* fsm.py *)

CALLBACK_NAMES ==
    <<"confirm_created", "confirm_label", "mark_in_transit",
      "mark_out_for_delivery", "mark_delivered", "mark_returned",
      "cancel", "fail">>

ALLOWED_CALLBACKS == {CALLBACK_NAMES[i] : i \in 1..Len(CALLBACK_NAMES)}

\* Guard: TRUE when the guard lets the transition through, FALSE when it
\* raises MachineError.
\* a guard that lets every shipment through
require_label_url_Absent(model) == TRUE

require_label_url(model) == model.label_url # ""

\* a guard that looks at the wrong field
require_tracking_number_WrongField(model) == model.label_url # ""

\* a guard that lets a shipment without tracking number through
require_tracking_number_Absent(model) == TRUE

require_tracking_number(model) == model.tracking_number # ""

\* a `fail` edge that also leaves DELIVERED, the one state that is neither
\* a source of it nor terminal
Edge_FailLeavesDelivered(trigger, source, dest, before) ==
    [trigger |-> trigger,
     source |-> IF trigger = "fail" THEN source \cup {DELIVERED} ELSE source,
     dest |-> dest, before |-> before]

\* an edge whose destination is taken from its sources
Edge_DestFromSource(trigger, source, dest, before) ==
    [trigger |-> trigger, source |-> source,
     dest |-> CHOOSE st \in source : TRUE, before |-> before]

\* an edge that can also be taken out of CANCELLED
Edge_ReopensCancelled(trigger, source, dest, before) ==
    [trigger |-> trigger,
     source |-> IF trigger = "fail" THEN source \cup {CANCELLED} ELSE source,
     dest |-> dest, before |-> before]

\* an edge that can also be taken at its destination, where it changes
\* nothing
Edge_AlsoFromDest(trigger, source, dest, before) ==
    [trigger |-> trigger, source |-> source \cup {dest}, dest |-> dest,
     before |-> before]

\* one entry of SHIPMENT_TRANSITIONS; before is "" when the entry has no
\* 'before' callback
Edge(trigger, source, dest, before) ==
    [trigger |-> trigger, source |-> source, dest |-> dest,
     before |-> before]

\* a table with one more entry, which lets a failed shipment be confirmed
\* as created again
SHIPMENT_TRANSITIONS_RetryFromFailed ==
    << Edge("confirm_created", {STATUS_NEW}, CREATED, ""),
       Edge("confirm_label", {CREATED}, LABEL_READY, "require_label_url"),
       Edge("mark_in_transit", {CREATED, LABEL_READY}, IN_TRANSIT,
            "require_tracking_number"),
       Edge("mark_out_for_delivery", {IN_TRANSIT}, OUT_FOR_DELIVERY, ""),
       Edge("mark_delivered", {IN_TRANSIT, OUT_FOR_DELIVERY}, DELIVERED, ""),
       Edge("mark_returned", {IN_TRANSIT, OUT_FOR_DELIVERY, DELIVERED},
            RETURNED, ""),
       Edge("cancel", {STATUS_NEW, CREATED, LABEL_READY}, CANCELLED, ""),
       Edge("fail",
            {STATUS_NEW, CREATED, LABEL_READY, IN_TRANSIT, OUT_FOR_DELIVERY},
            FAILED, ""),
       Edge("confirm_created", {FAILED}, CREATED, "") >>

SHIPMENT_TRANSITIONS ==
    << Edge("confirm_created", {STATUS_NEW}, CREATED, ""),
       Edge("confirm_label", {CREATED}, LABEL_READY, "require_label_url"),
       Edge("mark_in_transit", {CREATED, LABEL_READY}, IN_TRANSIT,
            "require_tracking_number"),
       Edge("mark_out_for_delivery", {IN_TRANSIT}, OUT_FOR_DELIVERY, ""),
       Edge("mark_delivered", {IN_TRANSIT, OUT_FOR_DELIVERY}, DELIVERED, ""),
       Edge("mark_returned", {IN_TRANSIT, OUT_FOR_DELIVERY, DELIVERED},
            RETURNED, ""),
       Edge("cancel", {STATUS_NEW, CREATED, LABEL_READY}, CANCELLED, ""),
       Edge("fail",
            {STATUS_NEW, CREATED, LABEL_READY, IN_TRANSIT, OUT_FOR_DELIVERY},
            FAILED, "") >>

\* a table that sends "delivered" and "returned" to each other's trigger
STATUS_TO_CALLBACK_Crossed ==
    [s \in ShipmentStatus \ {STATUS_NEW} |->
        CASE s = CREATED -> "confirm_created"
          [] s = LABEL_READY -> "confirm_label"
          [] s = IN_TRANSIT -> "mark_in_transit"
          [] s = OUT_FOR_DELIVERY -> "mark_out_for_delivery"
          [] s = DELIVERED -> "mark_returned"
          [] s = RETURNED -> "mark_delivered"
          [] s = CANCELLED -> "cancel"
          [] s = FAILED -> "fail"]

STATUS_TO_CALLBACK ==
    [s \in ShipmentStatus \ {STATUS_NEW} |->
        CASE s = CREATED -> "confirm_created"
          [] s = LABEL_READY -> "confirm_label"
          [] s = IN_TRANSIT -> "mark_in_transit"
          [] s = OUT_FOR_DELIVERY -> "mark_out_for_delivery"
          [] s = DELIVERED -> "mark_delivered"
          [] s = RETURNED -> "mark_returned"
          [] s = CANCELLED -> "cancel"
          [] s = FAILED -> "fail"]

\* The 'before' callbacks of a transition, run after the source matched and
\* before the state changes.
BeforePasses(trans, model) ==
    CASE trans.before = "require_label_url" -> require_label_url(model)
      [] trans.before = "require_tracking_number" ->
            require_tracking_number(model)
      [] OTHER -> TRUE

\* an event whose transitions are found by trigger name alone
EventTransitions_AnySource(model, trigger) ==
    SelectSeq(SHIPMENT_TRANSITIONS, LAMBDA t : t.trigger = trigger)

\* Machine: the transitions an event holds for the model's current state.
EventTransitions(model, trigger) ==
    SelectSeq(SHIPMENT_TRANSITIONS,
              LAMBDA t : t.trigger = trigger /\ model.status \in t.source)

\* Machine: model.<trigger>().  No transition from the current state raises
\* MachineError; otherwise the first transition runs its 'before' callbacks
\* (a guard raises MachineError) and then sets the status to dest.
EventTrigger(model, trigger) ==
    LET ts == EventTransitions(model, trigger)
    IN  IF ts = <<>>
        THEN [model |-> model,
              exc |-> Exc("MachineError", "cannot trigger from state", "")]
        ELSE IF ~BeforePasses(ts[1], model)
        THEN [model |-> model,
              exc |-> Exc("MachineError", ts[1].before, "")]
        ELSE [model |-> [model EXCEPT !.status = ts[1].dest], exc |-> NoExc]

\* Machine: model.may_trigger(name).  A transition from the current state
\* whose `conditions` all hold; the table declares no conditions, and the
\* 'before' callbacks are not consulted.
may_trigger(model, trigger) ==
    EventTransitions(model, trigger) # <<>>

\* an attach that starts every machine in NEW
create_shipment_machine_StartsNew(s) ==
    [s EXCEPT !.status = STATUS_NEW, !.attached = TRUE]

\* create_shipment_machine: binds the triggers to the shipment and sets the
\* status to the initial state.
create_shipment_machine(s) ==
    [s EXCEPT !.status = IF s.status # "" THEN s.status ELSE STATUS_NEW,
              !.attached = TRUE]

-----------------------------------------------------------------------------
(* provider.py: the integration types known to the model *)

\* CarrierProvider stands for any integration that declares all four
\* capability traits, BasicProvider for one that is a BaseProvider only;
\* DummyProvider is the built-in one (providers/dummy.py).
ProviderClasses ==
    {"DummyProvider", "CarrierProvider", "BasicProvider", "ShadowProvider"}

\* BaseProvider.slug of each type
SlugOf(cls) ==
    CASE cls = "DummyProvider" -> "dummy"
      [] cls = "CarrierProvider" -> "carrier"
      [] cls = "BasicProvider" -> "basic"
      [] cls = "ShadowProvider" -> "dummy"

\* BaseProvider.display_name of each type
DisplayName(cls) ==
    CASE cls = "DummyProvider" -> "Dummy"
      [] cls = "CarrierProvider" -> "Carrier"
      [] cls = "BasicProvider" -> "Basic"
      [] cls = "ShadowProvider" -> "Shadow"

\* BaseProvider.user_selectable of each type (True unless overridden)
UserSelectable(cls) == cls # "BasicProvider"

\* isinstance(provider, <trait>): the traits a type derives from
Capabilities(cls) ==
    CASE cls \in {"BasicProvider", "ShadowProvider"} -> {}
      [] OTHER -> {"LabelProvider", "PushCallbackProvider",
                   "PullStatusProvider", "CancellableProvider"}

BUILTIN_PROVIDERS == <<"DummyProvider">>

-----------------------------------------------------------------------------
(* registry.py: PluginRegistry.  _providers is an insertion-ordered mapping *)
(* slug -> type, kept as the sequence of the registered types.             *)

\* runs counts the executions of discover on the instance; removed holds
\* the slugs that unregister was called with and that register has not
\* mapped since
Registry(providers, discovered) ==
    [providers |-> providers, discovered |-> discovered, runs |-> 0,
     removed |-> {}]

\* self._providers.get(slug): the type, or "" for None
ProvidersGet(reg, slug) ==
    LET hit == SelectSeq(reg.providers, LAMBDA c : SlugOf(c) = slug)
    IN  IF hit = <<>> THEN "" ELSE hit[1]

\* a registration that lets a later type take over a slug
register_provider_Overwrites(reg, cls) ==
    LET existing == ProvidersGet(reg, SlugOf(cls))
    IN  IF existing = cls
        THEN [reg |-> reg, exc |-> NoExc]
        ELSE [reg |-> [reg EXCEPT !.providers =
                          Append(SelectSeq(@, LAMBDA c : c # existing), cls)],
              exc |-> NoExc]

\* _register_provider
register_provider(reg, cls) ==
    LET existing == ProvidersGet(reg, SlugOf(cls))
    IN  IF existing # "" /\ existing # cls
        THEN [reg |-> reg,
              exc |-> Exc("ValueError", "Duplicate provider slug", "")]
        ELSE IF existing = cls
        THEN [reg |-> reg, exc |-> NoExc]
        ELSE [reg |-> [reg EXCEPT !.providers = Append(@, cls)],
              exc |-> NoExc]

RECURSIVE RegisterAll(_, _)
\* the loops of discover: register each type in turn, stop at the first
\* error
RegisterAll(reg, classes) ==
    IF classes = <<>>
    THEN [reg |-> reg, exc |-> NoExc]
    ELSE LET r == register_provider(reg, Head(classes))
         IN  IF r.exc # NoExc THEN r ELSE RegisterAll(r.reg, Tail(classes))

\* entry_points(group=ENTRY_POINT_GROUP): what each installed entry point
\* does when loaded, in order: a type of ProviderClasses is the object it
\* loads to, "not-a-class" an object that is no class, "str" a class that
\* is no BaseProvider, "raises" a load() that raises ImportError
EntryPoints == entry_points

RECURSIVE LoadEntryPoints(_, _)
\* the loop of discover over the entry points: load each, register what is
\* a BaseProvider subclass, skip what is not; an error of load() or of the
\* registration leaves the loop
LoadEntryPoints(reg, eps) ==
    IF eps = <<>>
    THEN [reg |-> reg, exc |-> NoExc]
    ELSE IF Head(eps) = "raises"
    THEN [reg |-> reg,
          exc |-> Exc("ImportError", "No module named 'plugin'", "")]
    ELSE IF Head(eps) \in ProviderClasses
    THEN LET r == register_provider(reg, Head(eps))
         IN  IF r.exc # NoExc THEN r
             ELSE LoadEntryPoints(r.reg, Tail(eps))
    ELSE LoadEntryPoints(reg, Tail(eps))

discover(reg) ==
    LET b == RegisterAll([reg EXCEPT !.runs = @ + 1], BUILTIN_PROVIDERS)
        e == LoadEntryPoints(b.reg, EntryPoints)
    IN  IF b.exc # NoExc THEN b
        ELSE IF e.exc # NoExc THEN e
        ELSE [reg |-> [e.reg EXCEPT !.discovered = TRUE], exc |-> NoExc]

ensure_discovered(reg) ==
    IF ~reg.discovered THEN discover(reg) ELSE [reg |-> reg, exc |-> NoExc]

\* the outcome r of a registration of cls on reg, with the slug struck
\* from reg.removed if the registration mapped it
Reinstated(r, reg, cls) ==
    IF r.reg.providers # reg.providers
    THEN [r EXCEPT !.reg.removed = @ \ {SlugOf(cls)}]
    ELSE r

\* register
register(reg, cls) == Reinstated(register_provider(reg, cls), reg, cls)

\* unregister: self._providers.pop(slug, None)
unregister(reg, slug) ==
    [reg |-> [reg EXCEPT
                !.providers = SelectSeq(@, LAMBDA c : SlugOf(c) # slug),
                !.removed = @ \cup {slug}],
     exc |-> NoExc]

\* a list that leaves the user_selectable flag out of account
Choices_EveryType(d) ==
    IF d.exc # NoExc
    THEN [reg |-> d.reg, exc |-> d.exc, choices |-> <<>>]
    ELSE [reg |-> d.reg, exc |-> NoExc,
          choices |-> [i \in 1..Len(d.reg.providers) |->
                         <<SlugOf(d.reg.providers[i]),
                           DisplayName(d.reg.providers[i])>>]]

\* the list get_choices builds from the registry discovery left
Choices(d) ==
    IF d.exc # NoExc
    THEN [reg |-> d.reg, exc |-> d.exc, choices |-> <<>>]
    ELSE LET sel == SelectSeq(d.reg.providers, UserSelectable)
         IN  [reg |-> d.reg, exc |-> NoExc,
              choices |-> [i \in 1..Len(sel) |->
                             <<SlugOf(sel[i]), DisplayName(sel[i])>>]]

\* get_choices
get_choices(reg) == Choices(ensure_discovered(reg))

\* a lookup that answers an unknown slug with the first registered type
ProvidersGetItem_FallsBack(d, slug) ==
    IF d.exc # NoExc
    THEN [reg |-> d.reg, exc |-> d.exc, cls |-> ""]
    ELSE IF ProvidersGet(d.reg, slug) = ""
    THEN [reg |-> d.reg, exc |-> NoExc, cls |-> d.reg.providers[1]]
    ELSE [reg |-> d.reg, exc |-> NoExc, cls |-> ProvidersGet(d.reg, slug)]

\* self._providers[slug] on the registry d.reg that discovery left: cls is
\* the type found, "" when an error is raised
ProvidersGetItem(d, slug) ==
    IF d.exc # NoExc
    THEN [reg |-> d.reg, exc |-> d.exc, cls |-> ""]
    ELSE IF ProvidersGet(d.reg, slug) = ""
    THEN [reg |-> d.reg, exc |-> Exc("KeyError", slug, ""), cls |-> ""]
    ELSE [reg |-> d.reg, exc |-> NoExc, cls |-> ProvidersGet(d.reg, slug)]

\* get_by_slug
get_by_slug(reg, slug) == ProvidersGetItem(ensure_discovered(reg), slug)

-----------------------------------------------------------------------------
(* The shipment record, the persistence collaborator and the record of the *)
(* last operation                                                          *)

\* protocols.py Shipment; attached tells whether create_shipment_machine
\* has bound the trigger methods to the instance
Shipment(id, status, provider, ext, trk, url, att) ==
    [id |-> id, status |-> status, provider |-> provider,
     external_id |-> ext, tracking_number |-> trk, label_url |-> url,
     attached |-> att]

\* no shipment instance yet
NoShipment == Shipment("", "", "", "", "", "", FALSE)

\* what repository.save / repository.create write: the fields of the record
Persisted(s) == [s EXCEPT !.attached = FALSE]

\* None, as a status value of a carrier response
None == "<None>"

\* op: the operation; arg: its trigger name, slug or reported status value;
\* pre: the shipment before it; exc: the error it raised (NoExc if none);
\* ret: the boolean it returned; saves: how often it invoked
\* repository.save; calls: the collaborator operations and engine triggers
\* it invoked, in order
Last(op, arg, pre, exc, ret, saves, calls) ==
    [op |-> op, arg |-> arg, pre |-> pre, exc |-> exc, ret |-> ret,
     saves |-> saves, calls |-> calls, validated |-> <<>>]

\* A coroutine running an orchestrator operation: op is the operation, pc
\* the await it is suspended at ("idle" before it starts, "done" once the
\* operation returned or raised), exc the type of the error it raised, and
\* overtaken tells that the shipment's status changed after op began
Task(op, pc, exc, overtaken) ==
    [op |-> op, pc |-> pc, exc |-> exc, overtaken |-> overtaken]

IdleTask == Task("", "idle", "", FALSE)

\* no operation in progress
Idle == Last("", [name |-> ""], NoShipment, NoExc, FALSE, 0, <<>>)

\* the outcome of one orchestrator operation
Out(s, st, reg, exc, ret, saves, calls) ==
    [shipment |-> s, store |-> st, registry |-> reg, exc |-> exc,
     ret |-> ret, saves |-> saves, calls |-> calls, validated |-> <<>>]

-----------------------------------------------------------------------------
(* validators.py *)

\* what a validator returns for the data dict it receives: the dict as it
\* is ("ok"), or the dict with a note added ("stamp"); "reject"
\* raises and returns nothing for the data it receives
ValidatorReturn(validator, data) ==
    IF validator = "stamp"
    THEN [data EXCEPT !.notes = Append(@, "stamped")]
    ELSE data

\* one call of a validator, with the data it was handed
ValidatorCall(validator, data) == [validator |-> validator, data |-> data]

RECURSIVE RunFrom_SameData(_, _, _)
\* a loop that hands every validator the data run_validators was called with
RunFrom_SameData(validators, i, data) ==
    IF i > Len(validators)
    THEN [exc |-> NoExc, calls |-> <<>>, validated |-> <<>>, data |-> data]
    ELSE IF validators[i] = "reject"
    THEN [exc |-> Exc("ValueError", "rejected", ""),
          calls |-> <<"validator">>,
          validated |-> <<ValidatorCall(validators[i], data)>>,
          data |-> data]
    ELSE LET rest == RunFrom_SameData(validators, i + 1, data)
         IN  [exc |-> rest.exc, calls |-> <<"validator">> \o rest.calls,
              validated |->
                <<ValidatorCall(validators[i], data)>> \o rest.validated,
              data |-> ValidatorReturn(validators[i], rest.data)]

RECURSIVE RunFrom(_, _, _)
\* the loop of run_validators from validator i on: each validator is called
\* with data and what it returns is the data of the next; "reject" raises.
\* validated lists the calls made, data is what the loop returns
RunFrom(validators, i, data) ==
    IF i > Len(validators)
    THEN [exc |-> NoExc, calls |-> <<>>, validated |-> <<>>, data |-> data]
    ELSE IF validators[i] = "reject"
    THEN [exc |-> Exc("ValueError", "rejected", ""),
          calls |-> <<"validator">>,
          validated |-> <<ValidatorCall(validators[i], data)>>,
          data |-> data]
    ELSE LET rest == RunFrom(validators, i + 1,
                             ValidatorReturn(validators[i], data))
         IN  [exc |-> rest.exc, calls |-> <<"validator">> \o rest.calls,
              validated |->
                <<ValidatorCall(validators[i], data)>> \o rest.validated,
              data |-> rest.data]

run_validators(data, validators) == RunFrom(validators, 1, data)

\* the data create_label hands to run_validators: {"shipment": shipment}
LabelData(s) == [shipment |-> s.id, notes |-> <<>>]

-----------------------------------------------------------------------------
(* flow.py: ShipmentFlow *)

\* _get_provider: the registry lookup; the instance is its type.  The
\* operations record the construction of the instance that follows a
\* successful lookup as "provider.__init__" in their calls.
get_provider(reg, s) == get_by_slug(reg, s.provider)

\* a translation that wraps the package's own errors too
call_provider_WrapsDomainErrors(exc) ==
    IF exc = NoExc THEN NoExc
    ELSE Exc("CommunicationError", exc.msg, exc.type)

\* a translation that names the httpx base class instead of the error's own
\* type
call_provider_BaseClassName(exc) ==
    IF exc = NoExc THEN NoExc
    ELSE IF exc.type \in SendParcelException THEN exc
    ELSE IF exc.type \in HTTPError
    THEN Exc("CommunicationError", exc.msg, "HTTPError")
    ELSE Exc("CommunicationError", exc.msg, exc.type)

\* _call_provider: the error that leaves it when the awaited integration
\* call raised exc
call_provider(exc) ==
    IF exc = NoExc THEN NoExc
    ELSE IF exc.type \in SendParcelException THEN exc
    ELSE IF exc.type \in HTTPError
    THEN Exc("CommunicationError", exc.msg, exc.type)
    ELSE Exc("CommunicationError", exc.msg, exc.type)

\* a resolution that falls back to the reported value as a trigger name
resolve_callback_RawFallback(status_value) ==
    IF status_value = None
    THEN [cb |-> "", exc |-> NoExc]
    ELSE IF status_value \in DOMAIN STATUS_TO_CALLBACK
    THEN [cb |-> STATUS_TO_CALLBACK[status_value], exc |-> NoExc]
    ELSE IF status_value \in ALLOWED_CALLBACKS
    THEN [cb |-> status_value, exc |-> NoExc]
    ELSE [cb |-> "",
          exc |-> Exc("InvalidTransitionError", "Unknown status value", "")]

\* _resolve_callback: cb is "" for None
resolve_callback(status_value) ==
    IF status_value = None
    THEN [cb |-> "", exc |-> NoExc]
    ELSE IF status_value \in DOMAIN STATUS_TO_CALLBACK
    THEN [cb |-> STATUS_TO_CALLBACK[status_value], exc |-> NoExc]
    ELSE [cb |-> "",
          exc |-> Exc("InvalidTransitionError", "Unknown status value", "")]

\* a _trigger that writes the trigger's destination without asking the
\* engine whether the trigger is permitted now
flow_trigger_WritesDestination(s, callback) ==
    IF ~s.attached \/ callback \notin ALLOWED_CALLBACKS
    THEN [model |-> s, fired |-> <<>>,
          exc |-> Exc("InvalidTransitionError", "no callback trigger", "")]
    ELSE [model |->
            [s EXCEPT !.status =
               SelectSeq(SHIPMENT_TRANSITIONS,
                         LAMBDA t : t.trigger = callback)[1].dest],
          fired |-> <<callback>>, exc |-> NoExc]

\* _trigger: fired lists the engine trigger it invoked, if it got that far
flow_trigger(s, callback) ==
    IF ~s.attached \/ callback \notin ALLOWED_CALLBACKS
    THEN [model |-> s, fired |-> <<>>,
          exc |-> Exc("InvalidTransitionError", "no callback trigger", "")]
    ELSE IF ~may_trigger(s, callback)
    THEN [model |-> s, fired |-> <<>>,
          exc |-> Exc("InvalidTransitionError",
                      "cannot be executed from status", "")]
    ELSE LET r == EventTrigger(s, callback)
         IN  [model |-> r.model, fired |-> <<callback>>, exc |-> r.exc]

\* an attempt that never fires confirm_label
confirm_label_if_may_Never(s) ==
    [model |-> s, fired |-> <<>>, exc |-> NoExc]

\* `if shipment.may_trigger("confirm_label"): shipment.confirm_label()`
confirm_label_if_may(s) ==
    IF may_trigger(s, "confirm_label")
    THEN LET r == EventTrigger(s, "confirm_label")
         IN  [model |-> r.model, fired |-> <<"confirm_label">>,
              exc |-> r.exc]
    ELSE [model |-> s, fired |-> <<>>, exc |-> NoExc]

\* a create_shipment that stores the label url without attempting
\* confirm_label
create_shipment_LabelWithoutConfirm(reg, st, slug, resp) ==
    LET g == get_by_slug(reg, slug)
        s0 == Shipment("shipment-1", STATUS_NEW, slug, "", "", "", FALSE)
        s1 == create_shipment_machine(s0)
        c1 == <<"repository.create", "provider.__init__",
               "provider.create_shipment">>
        s2 == [s1 EXCEPT !.external_id = resp.external_id,
                         !.tracking_number = resp.tracking_number]
        t == flow_trigger(s2, "confirm_created")
        s3 == IF resp.label_url # ""
              THEN [t.model EXCEPT !.label_url = resp.label_url]
              ELSE t.model
        l == [model |-> s3, fired |-> <<>>, exc |-> NoExc]
    IN  IF g.exc # NoExc
        THEN Out(NoShipment, st, g.reg, g.exc, FALSE, 0, <<>>)
        ELSE IF resp.exc # NoExc
        THEN Out(s1, Persisted(s0), g.reg, call_provider(resp.exc), FALSE,
                 0, c1)
        ELSE IF t.exc # NoExc
        THEN Out(t.model, Persisted(s0), g.reg, t.exc, FALSE, 0,
                 c1 \o t.fired)
        ELSE IF l.exc # NoExc
        THEN Out(l.model, Persisted(s0), g.reg, l.exc, FALSE, 0,
                 c1 \o t.fired \o l.fired)
        ELSE Out(l.model, Persisted(l.model), g.reg, NoExc, FALSE, 1,
                 c1 \o t.fired \o l.fired \o <<"repository.save">>)

\* a create_shipment that marks the shipment failed, and saves it, when the
\* integration call fails
create_shipment_FailsTheShipment(reg, st, slug, resp) ==
    LET g == get_by_slug(reg, slug)
        s0 == Shipment("shipment-1", STATUS_NEW, slug, "", "", "", FALSE)
        s1 == create_shipment_machine(s0)
        c1 == <<"repository.create", "provider.__init__",
               "provider.create_shipment">>
        s2 == [s1 EXCEPT !.external_id = resp.external_id,
                         !.tracking_number = resp.tracking_number]
        t == flow_trigger(s2, "confirm_created")
        s3 == IF resp.label_url # ""
              THEN [t.model EXCEPT !.label_url = resp.label_url]
              ELSE t.model
        l == IF resp.label_url # ""
             THEN confirm_label_if_may(s3)
             ELSE [model |-> s3, fired |-> <<>>, exc |-> NoExc]
    IN  IF g.exc # NoExc
        THEN Out(NoShipment, st, g.reg, g.exc, FALSE, 0, <<>>)
        ELSE IF resp.exc # NoExc
        THEN Out([s1 EXCEPT !.status = FAILED],
                 Persisted([s0 EXCEPT !.status = FAILED]), g.reg,
                 call_provider(resp.exc), FALSE, 1,
                 c1 \o <<"fail", "repository.save">>)
        ELSE IF t.exc # NoExc
        THEN Out(t.model, Persisted(s0), g.reg, t.exc, FALSE, 0,
                 c1 \o t.fired)
        ELSE IF l.exc # NoExc
        THEN Out(l.model, Persisted(s0), g.reg, l.exc, FALSE, 0,
                 c1 \o t.fired \o l.fired)
        ELSE Out(l.model, Persisted(l.model), g.reg, NoExc, FALSE, 1,
                 c1 \o t.fired \o l.fired \o <<"repository.save">>)

\* create_shipment; resp is what the integration's create_shipment does:
\* resp.exc the error it raises, or the external_id, tracking_number and
\* label url of its result ("" for an absent key)
create_shipment(reg, st, slug, resp) ==
    LET g == get_by_slug(reg, slug)
        s0 == Shipment("shipment-1", STATUS_NEW, slug, "", "", "", FALSE)
        s1 == create_shipment_machine(s0)
        c1 == <<"repository.create", "provider.__init__",
               "provider.create_shipment">>
        s2 == [s1 EXCEPT !.external_id = resp.external_id,
                         !.tracking_number = resp.tracking_number]
        t == flow_trigger(s2, "confirm_created")
        s3 == IF resp.label_url # ""
              THEN [t.model EXCEPT !.label_url = resp.label_url]
              ELSE t.model
        l == IF resp.label_url # ""
             THEN confirm_label_if_may(s3)
             ELSE [model |-> s3, fired |-> <<>>, exc |-> NoExc]
    IN  IF g.exc # NoExc
        THEN Out(NoShipment, st, g.reg, g.exc, FALSE, 0, <<>>)
        ELSE IF resp.exc # NoExc
        THEN Out(s1, Persisted(s0), g.reg, call_provider(resp.exc), FALSE,
                 0, c1)
        ELSE IF t.exc # NoExc
        THEN Out(t.model, Persisted(s0), g.reg, t.exc, FALSE, 0,
                 c1 \o t.fired)
        ELSE IF l.exc # NoExc
        THEN Out(l.model, Persisted(s0), g.reg, l.exc, FALSE, 0,
                 c1 \o t.fired \o l.fired)
        ELSE Out(l.model, Persisted(l.model), g.reg, NoExc, FALSE, 1,
                 c1 \o t.fired \o l.fired \o <<"repository.save">>)

\* an outcome with the calls of the validators it made
Validated(validated, o) == [o EXCEPT !.validated = validated]

\* a create_label that keeps the label_url it has when the response
\* carries none
create_label_KeepsUrlWhenNoneReturned(s, st, reg, validators, resp) ==
    LET v == run_validators(LabelData(s), validators)
        s1 == create_shipment_machine(s)
        p == get_provider(reg, s1)
        c0 == v.calls \o <<"provider.__init__">>
        c1 == c0 \o <<"provider.create_label">>
        s2 == IF resp.url # ""
              THEN [s1 EXCEPT !.label_url = resp.url]
              ELSE s1
        l == confirm_label_if_may(s2)
    IN  Validated(v.validated,
        IF v.exc # NoExc
        THEN Out(s, st, reg, v.exc, FALSE, 0, v.calls)
        ELSE IF p.exc # NoExc
        THEN Out(s1, st, p.reg, p.exc, FALSE, 0, v.calls)
        ELSE IF "LabelProvider" \notin Capabilities(p.cls)
        THEN Out(s1, st, p.reg,
                 Exc("ProviderCapabilityError", "label creation", ""),
                 FALSE, 0, c0)
        ELSE IF resp.exc # NoExc
        THEN Out(s1, st, p.reg, call_provider(resp.exc), FALSE, 0, c1)
        ELSE IF l.exc # NoExc
        THEN Out(l.model, st, p.reg, l.exc, FALSE, 0, c1 \o l.fired)
        ELSE Out(l.model, Persisted(l.model), p.reg, NoExc, FALSE, 1,
                 c1 \o l.fired \o <<"repository.save">>))

\* create_label; resp.exc is the error the integration's create_label
\* raises, resp.url the url of its result ("" for an absent key)
create_label(s, st, reg, validators, resp) ==
    LET v == run_validators(LabelData(s), validators)
        s1 == create_shipment_machine(s)
        p == get_provider(reg, s1)
        c0 == v.calls \o <<"provider.__init__">>
        c1 == c0 \o <<"provider.create_label">>
        s2 == [s1 EXCEPT !.label_url = resp.url]
        l == confirm_label_if_may(s2)
    IN  Validated(v.validated,
        IF v.exc # NoExc
        THEN Out(s, st, reg, v.exc, FALSE, 0, v.calls)
        ELSE IF p.exc # NoExc
        THEN Out(s1, st, p.reg, p.exc, FALSE, 0, v.calls)
        ELSE IF "LabelProvider" \notin Capabilities(p.cls)
        THEN Out(s1, st, p.reg,
                 Exc("ProviderCapabilityError", "label creation", ""),
                 FALSE, 0, c0)
        ELSE IF resp.exc # NoExc
        THEN Out(s1, st, p.reg, call_provider(resp.exc), FALSE, 0, c1)
        ELSE IF l.exc # NoExc
        THEN Out(l.model, st, p.reg, l.exc, FALSE, 0, c1 \o l.fired)
        ELSE Out(l.model, Persisted(l.model), p.reg, NoExc, FALSE, 1,
                 c1 \o l.fired \o <<"repository.save">>))

\* What an integration's handle_callback does with the shipment: raise
\* h.exc; or leave it alone (h.callback = ""); or apply the trigger
\* h.callback through the engine, after asking may_trigger (h.checked) or
\* straight away.  An error of the engine leaves the integration call.
provider_handle_callback(s, h) ==
    IF h.exc # NoExc
    THEN [model |-> s, fired |-> <<>>, exc |-> h.exc]
    ELSE IF h.callback = ""
    THEN [model |-> s, fired |-> <<>>, exc |-> NoExc]
    ELSE IF h.checked /\ ~may_trigger(s, h.callback)
    THEN [model |-> s, fired |-> <<>>, exc |-> NoExc]
    ELSE LET r == EventTrigger(s, h.callback)
         IN  [model |-> r.model, fired |-> <<h.callback>>, exc |-> r.exc]

\* providers/dummy.py: DummyProvider

\* verify_callback: the x-dummy-token header against the callback_token
\* setting (default "dummy-token"); the error it raises
dummy_verify_callback(token) ==
    IF token # "dummy-token"
    THEN Exc("InvalidCallbackError", "BAD TOKEN", "")
    ELSE NoExc

\* a lookup that knows the status values of the table only
DummyCallbackName_TableOnly(status_value) ==
    IF status_value \in {None, ""}
    THEN ""
    ELSE IF status_value \in DOMAIN STATUS_TO_CALLBACK
    THEN STATUS_TO_CALLBACK[status_value]
    ELSE ""

\* handle_callback: the trigger name for data.get("status"), "" when the
\* value is missing or empty; a value the table does not hold is its own
\* trigger name
DummyCallbackName(status_value) ==
    IF status_value \in {None, ""}
    THEN ""
    ELSE IF status_value \in DOMAIN STATUS_TO_CALLBACK
    THEN STATUS_TO_CALLBACK[status_value]
    ELSE status_value

\* handle_callback as a behaviour of provider_handle_callback: it asks
\* may_trigger before it fires
DummyBehaviour(status_value) ==
    [exc |-> NoExc, callback |-> DummyCallbackName(status_value),
     checked |-> TRUE]

\* handle_callback on the provider's shipment; a shipment without engine
\* has neither trigger nor may_trigger and is left alone
dummy_handle_callback(s, status_value) ==
    IF ~s.attached
    THEN [model |-> s, fired |-> <<>>, exc |-> NoExc]
    ELSE provider_handle_callback(s, DummyBehaviour(status_value))

\* fetch_shipment_status: the status_override setting, or the shipment's
\* status when there is none (None)
dummy_fetch_shipment_status(s, status_override) ==
    [exc |-> NoExc,
     status |-> IF status_override = None THEN s.status
                ELSE status_override]

\* a handle_callback that applies the callback before verifying it
handle_callback_HandlesBeforeVerifying(s, st, reg, verify, h) ==
    LET p == get_provider(reg, s)
        s1 == create_shipment_machine(s)
        c0 == <<"provider.__init__">>
        r == provider_handle_callback(s1, h)
        c1 == c0 \o <<"provider.handle_callback">> \o r.fired
        c2 == c1 \o <<"provider.verify_callback">>
    IN  IF p.exc # NoExc
        THEN Out(s, st, p.reg, p.exc, FALSE, 0, <<>>)
        ELSE IF "PushCallbackProvider" \notin Capabilities(p.cls)
        THEN Out(s, st, p.reg,
                 Exc("ProviderCapabilityError", "push callbacks", ""),
                 FALSE, 0, c0)
        ELSE IF r.exc # NoExc
        THEN Out(r.model, st, p.reg, call_provider(r.exc), FALSE, 0, c1)
        ELSE IF verify # NoExc
        THEN Out(r.model, st, p.reg, call_provider(verify), FALSE, 0, c2)
        ELSE Out(r.model, Persisted(r.model), p.reg, NoExc, FALSE, 1,
                 c2 \o <<"repository.save">>)

\* handle_callback; verify is the error the integration's verify_callback
\* raises (NoExc: it accepts), h what its handle_callback does
\* a handle_callback that saves the shipment before the integration
\* applies the callback
handle_callback_SavesBeforeHandling(s, st, reg, verify, h) ==
    LET p == get_provider(reg, s)
        s1 == create_shipment_machine(s)
        c0 == <<"provider.__init__">>
        c1 == c0 \o <<"provider.verify_callback">>
        c2 == c1 \o <<"repository.save", "provider.handle_callback">>
        r == provider_handle_callback(s1, h)
    IN  IF p.exc # NoExc
        THEN Out(s, st, p.reg, p.exc, FALSE, 0, <<>>)
        ELSE IF "PushCallbackProvider" \notin Capabilities(p.cls)
        THEN Out(s, st, p.reg,
                 Exc("ProviderCapabilityError", "push callbacks", ""),
                 FALSE, 0, c0)
        ELSE IF verify # NoExc
        THEN Out(s1, st, p.reg, call_provider(verify), FALSE, 0, c1)
        ELSE IF r.exc # NoExc
        THEN Out(r.model, Persisted(s1), p.reg, call_provider(r.exc),
                 FALSE, 1, c2 \o r.fired)
        ELSE Out(r.model, Persisted(s1), p.reg, NoExc, FALSE, 1,
                 c2 \o r.fired)

handle_callback(s, st, reg, verify, h) ==
    LET p == get_provider(reg, s)
        s1 == create_shipment_machine(s)
        c0 == <<"provider.__init__">>
        c1 == c0 \o <<"provider.verify_callback">>
        c2 == c1 \o <<"provider.handle_callback">>
        r == provider_handle_callback(s1, h)
    IN  IF p.exc # NoExc
        THEN Out(s, st, p.reg, p.exc, FALSE, 0, <<>>)
        ELSE IF "PushCallbackProvider" \notin Capabilities(p.cls)
        THEN Out(s, st, p.reg,
                 Exc("ProviderCapabilityError", "push callbacks", ""),
                 FALSE, 0, c0)
        ELSE IF verify # NoExc
        THEN Out(s1, st, p.reg, call_provider(verify), FALSE, 0, c1)
        ELSE IF r.exc # NoExc
        THEN Out(r.model, st, p.reg, call_provider(r.exc), FALSE, 0,
                 c2 \o r.fired)
        ELSE Out(r.model, Persisted(r.model), p.reg, NoExc, FALSE, 1,
                 c2 \o r.fired \o <<"repository.save">>)

\* a fetch_and_update_status that persists only after a transition
fetch_and_update_status_SavesTransitions(s, st, reg, resp) ==
    LET p == get_provider(reg, s)
        s1 == create_shipment_machine(s)
        c0 == <<"provider.__init__">>
        c1 == c0 \o <<"provider.fetch_shipment_status">>
        cb == resolve_callback(resp.status)
        t == IF cb.cb # ""
             THEN flow_trigger(s1, cb.cb)
             ELSE [model |-> s1, fired |-> <<>>, exc |-> NoExc]
    IN  IF p.exc # NoExc
        THEN Out(s, st, p.reg, p.exc, FALSE, 0, <<>>)
        ELSE IF "PullStatusProvider" \notin Capabilities(p.cls)
        THEN Out(s, st, p.reg,
                 Exc("ProviderCapabilityError", "status polling", ""),
                 FALSE, 0, c0)
        ELSE IF resp.exc # NoExc
        THEN Out(s1, st, p.reg, call_provider(resp.exc), FALSE, 0, c1)
        ELSE IF cb.exc # NoExc
        THEN Out(s1, st, p.reg, cb.exc, FALSE, 0, c1)
        ELSE IF t.exc # NoExc
        THEN Out(t.model, st, p.reg, t.exc, FALSE, 0, c1 \o t.fired)
        ELSE IF t.fired = <<>>
        THEN Out(t.model, st, p.reg, NoExc, FALSE, 0, c1)
        ELSE Out(t.model, Persisted(t.model), p.reg, NoExc, FALSE, 1,
                 c1 \o t.fired \o <<"repository.save">>)

\* fetch_and_update_status; resp.exc is the error the integration's
\* fetch_shipment_status raises, resp.status the status of its response
\* (None for an absent key)
fetch_and_update_status(s, st, reg, resp) ==
    LET p == get_provider(reg, s)
        s1 == create_shipment_machine(s)
        c0 == <<"provider.__init__">>
        c1 == c0 \o <<"provider.fetch_shipment_status">>
        cb == resolve_callback(resp.status)
        t == IF cb.cb # ""
             THEN flow_trigger(s1, cb.cb)
             ELSE [model |-> s1, fired |-> <<>>, exc |-> NoExc]
    IN  IF p.exc # NoExc
        THEN Out(s, st, p.reg, p.exc, FALSE, 0, <<>>)
        ELSE IF "PullStatusProvider" \notin Capabilities(p.cls)
        THEN Out(s, st, p.reg,
                 Exc("ProviderCapabilityError", "status polling", ""),
                 FALSE, 0, c0)
        ELSE IF resp.exc # NoExc
        THEN Out(s1, st, p.reg, call_provider(resp.exc), FALSE, 0, c1)
        ELSE IF cb.exc # NoExc
        THEN Out(s1, st, p.reg, cb.exc, FALSE, 0, c1)
        ELSE IF t.exc # NoExc
        THEN Out(t.model, st, p.reg, t.exc, FALSE, 0, c1 \o t.fired)
        ELSE Out(t.model, Persisted(t.model), p.reg, NoExc, FALSE, 1,
                 c1 \o t.fired \o <<"repository.save">>)

\* a cancel_shipment that persists whatever the carrier answered
cancel_shipment_AlwaysSaves(s, st, reg, resp) ==
    LET p == get_provider(reg, s)
        s1 == create_shipment_machine(s)
        c0 == <<"provider.__init__">>
        c1 == c0 \o <<"provider.cancel_shipment">>
        t == flow_trigger(s1, "cancel")
    IN  IF p.exc # NoExc
        THEN Out(s, st, p.reg, p.exc, FALSE, 0, <<>>)
        ELSE IF "CancellableProvider" \notin Capabilities(p.cls)
        THEN Out(s, st, p.reg,
                 Exc("ProviderCapabilityError", "cancellation", ""),
                 FALSE, 0, c0)
        ELSE IF resp.exc # NoExc
        THEN Out(s1, st, p.reg, call_provider(resp.exc), FALSE, 0, c1)
        ELSE IF ~resp.cancelled
        THEN Out(s1, Persisted(s1), p.reg, NoExc, FALSE, 1,
                 c1 \o <<"repository.save">>)
        ELSE IF t.exc # NoExc
        THEN Out(t.model, st, p.reg, t.exc, FALSE, 0, c1 \o t.fired)
        ELSE Out(t.model, Persisted(t.model), p.reg, NoExc, TRUE, 1,
                 c1 \o t.fired \o <<"repository.save">>)

\* cancel_shipment; resp.exc is the error the integration's cancel_shipment
\* raises, resp.cancelled the boolean it returns
\* a cancel_shipment that asks the engine before it asks the carrier
cancel_shipment_ChecksBeforeCarrier(s, st, reg, resp) ==
    LET p == get_provider(reg, s)
        s1 == create_shipment_machine(s)
        c0 == <<"provider.__init__">>
        c1 == c0 \o <<"provider.cancel_shipment">>
        t == flow_trigger(s1, "cancel")
    IN  IF p.exc # NoExc
        THEN Out(s, st, p.reg, p.exc, FALSE, 0, <<>>)
        ELSE IF "CancellableProvider" \notin Capabilities(p.cls)
        THEN Out(s, st, p.reg,
                 Exc("ProviderCapabilityError", "cancellation", ""),
                 FALSE, 0, c0)
        ELSE IF ~may_trigger(s1, "cancel")
        THEN Out(s1, st, p.reg, t.exc, FALSE, 0, c0)
        ELSE IF resp.exc # NoExc
        THEN Out(s1, st, p.reg, call_provider(resp.exc), FALSE, 0, c1)
        ELSE IF ~resp.cancelled
        THEN Out(s1, st, p.reg, NoExc, FALSE, 0, c1)
        ELSE Out(t.model, Persisted(t.model), p.reg, NoExc, TRUE, 1,
                 c1 \o t.fired \o <<"repository.save">>)

cancel_shipment(s, st, reg, resp) ==
    LET p == get_provider(reg, s)
        s1 == create_shipment_machine(s)
        c0 == <<"provider.__init__">>
        c1 == c0 \o <<"provider.cancel_shipment">>
        t == flow_trigger(s1, "cancel")
    IN  IF p.exc # NoExc
        THEN Out(s, st, p.reg, p.exc, FALSE, 0, <<>>)
        ELSE IF "CancellableProvider" \notin Capabilities(p.cls)
        THEN Out(s, st, p.reg,
                 Exc("ProviderCapabilityError", "cancellation", ""),
                 FALSE, 0, c0)
        ELSE IF resp.exc # NoExc
        THEN Out(s1, st, p.reg, call_provider(resp.exc), FALSE, 0, c1)
        ELSE IF ~resp.cancelled
        THEN Out(s1, st, p.reg, NoExc, FALSE, 0, c1)
        ELSE IF t.exc # NoExc
        THEN Out(t.model, st, p.reg, t.exc, FALSE, 0, c1 \o t.fired)
        ELSE Out(t.model, Persisted(t.model), p.reg, NoExc, TRUE, 1,
                 c1 \o t.fired \o <<"repository.save">>)

-----------------------------------------------------------------------------
(* The values the model draws its inputs from *)

\* the longest validator list a flow is built with
MaxValidators == 2

\* the most executions of discover a registry instance is followed through
MaxDiscoverRuns == 2

LabelUrls == {"https://l/1.pdf", "https://l/2.pdf"}
TrackingNumbers == {"T1"}
ExternalIds == {"E1"}

\* the slugs shipments carry; "ghost" is registered nowhere
Slugs == {"carrier", "basic"}

\* the coroutines that run orchestrator operations on the one shipment
Tasks == {"task-1", "task-2"}

\* the most entry points installed
MaxEntryPoints == 2

\* what an installed entry point may be
EntryPointKinds == {"CarrierProvider", "not-a-class", "str", "raises"}

EntryPointLists ==
    UNION {[1..n -> EntryPointKinds] : n \in 0..MaxEntryPoints}

\* the slugs the registry is asked about
LookupSlugs == {"dummy", "carrier", "basic", "ghost"}

\* what an integration call may raise: two foreign errors (one of them an
\* httpx error) and two domain errors
ProviderRaises ==
    {Exc("RuntimeError", "boom", ""),
     Exc("ConnectError", "connection refused", ""),
     Exc("InvalidCallbackError", "bad signature", ""),
     Exc("CommunicationError", "carrier down", "Timeout")}

CreateResponses ==
    {[exc |-> e, external_id |-> "", tracking_number |-> "",
      label_url |-> ""] : e \in ProviderRaises}
    \cup
    {[exc |-> NoExc, external_id |-> x, tracking_number |-> t,
      label_url |-> u] :
        x \in ExternalIds \cup {""}, t \in TrackingNumbers \cup {""},
        u \in LabelUrls \cup {""}}

LabelResponses ==
    {[exc |-> e, url |-> ""] : e \in ProviderRaises}
    \cup {[exc |-> NoExc, url |-> u] : u \in LabelUrls \cup {""}}

ValidatorKinds == {"ok", "stamp", "reject"}

ValidatorLists ==
    UNION {[1..n -> ValidatorKinds] : n \in 0..MaxValidators}

Rejecting(validators) ==
    \E i \in 1..Len(validators) : validators[i] = "reject"

\* a rejected label request never reaches the integration: one response
\* stands for all
LabelInputs ==
    {<<v, [exc |-> NoExc, url |-> ""]>> :
        v \in {w \in ValidatorLists : Rejecting(w)}}
    \cup
    {<<v, resp>> :
        v \in {w \in ValidatorLists : ~Rejecting(w)},
        resp \in LabelResponses}

CallbackBehaviours ==
    {[exc |-> e, callback |-> "", checked |-> TRUE] : e \in ProviderRaises}
    \cup
    {[exc |-> NoExc, callback |-> c, checked |-> k] :
        c \in ALLOWED_CALLBACKS \cup {""}, k \in BOOLEAN}

\* a callback verify_callback rejects never reaches handle_callback: one
\* behaviour stands for all
CallbackInputs ==
    {<<v, [exc |-> NoExc, callback |-> "", checked |-> TRUE]>> :
        v \in ProviderRaises}
    \cup {<<NoExc, h>> : h \in CallbackBehaviours}

StatusValues ==
    ShipmentStatus \cup ALLOWED_CALLBACKS \cup {"", "unknown-status", None}

StatusResponses ==
    {[exc |-> e, status |-> None] : e \in ProviderRaises}
    \cup {[exc |-> NoExc, status |-> v] : v \in StatusValues}

CancelResponses ==
    {[exc |-> e, cancelled |-> FALSE] : e \in ProviderRaises}
    \cup {[exc |-> NoExc, cancelled |-> b] : b \in BOOLEAN}

-----------------------------------------------------------------------------
(* The state machine *)

\* Either nothing has been created yet, or the caller holds a shipment
\* record of any status and field values that the machine has not been
\* attached to (status "" is a record without a status).  The registry
\* holds the types the host registered; discovery has not run.
Init ==
    /\ shipment \in
         {NoShipment} \cup
         {Shipment("shipment-1", st, slug, x, t, u, FALSE) :
            st \in ShipmentStatus \cup {""}, slug \in Slugs,
            x \in ExternalIds \cup {""}, t \in TrackingNumbers \cup {""},
            u \in LabelUrls \cup {""}}
    /\ store = shipment
    /\ registry = Registry(<<"CarrierProvider", "BasicProvider">>, FALSE)
    /\ last = Idle
    /\ entry_points = << >>
    /\ tasks = [k \in Tasks |-> IdleTask]
    /\ path = << >>

\* the orchestrator is handed records of the persistence collaborator,
\* whose status is one of the enumeration
Handed == shipment # NoShipment /\ shipment.status \in ShipmentStatus

Apply(op, arg, o) ==
    /\ last = Idle
    /\ shipment' = o.shipment
    /\ store' = o.store
    /\ registry' = o.registry
    /\ last' = [Last(op, arg, shipment, o.exc, o.ret, o.saves, o.calls)
                  EXCEPT !.validated = o.validated]
    /\ UNCHANGED <<entry_points, tasks, path>>

\* create_shipment_machine(shipment)
Attach ==
    /\ last = Idle
    /\ shipment # NoShipment
    /\ shipment' = create_shipment_machine(shipment)
    /\ last' = Last("attach", [name |-> ""], shipment, NoExc, FALSE, 0, <<>>)
    /\ UNCHANGED <<store, registry, entry_points, tasks, path>>

\* shipment.<trigger>()
Trigger(t) ==
    /\ last = Idle
    /\ shipment.attached
    /\ LET r == EventTrigger(shipment, t)
       IN  /\ shipment' = r.model
           /\ last' = Last("trigger", [name |-> t], shipment, r.exc, FALSE,
                           0, <<>>)
    /\ UNCHANGED <<store, registry, entry_points, tasks, path>>

\* shipment.may_trigger(trigger)
MayTrigger(t) ==
    /\ last = Idle
    /\ shipment.attached
    /\ last' = Last("may_trigger", [name |-> t], shipment, NoExc,
                    may_trigger(shipment, t), 0, <<>>)
    /\ UNCHANGED <<shipment, store, registry, entry_points, tasks, path>>

CreateShipment(slug, resp) ==
    /\ shipment = NoShipment
    /\ Apply("create_shipment", [slug |-> slug] @@ resp,
             create_shipment(registry, store, slug, resp))

CreateLabel(validators, resp) ==
    /\ Handed
    /\ Apply("create_label", [validators |-> validators] @@ resp,
             create_label(shipment, store, registry, validators, resp))

HandleCallback(verify, h) ==
    /\ Handed
    /\ Apply("handle_callback", [verify |-> verify] @@ h,
             handle_callback(shipment, store, registry, verify, h))

FetchAndUpdateStatus(resp) ==
    /\ Handed
    /\ Apply("fetch_and_update_status", resp,
             fetch_and_update_status(shipment, store, registry, resp))

CancelShipment(resp) ==
    /\ Handed
    /\ Apply("cancel_shipment", resp,
             cancel_shipment(shipment, store, registry, resp))

\* the operation returns (or its error reaches the caller): the caller is
\* free to start the next one
Return ==
    /\ last # Idle
    /\ last' = Idle
    /\ UNCHANGED <<shipment, store, registry, entry_points, tasks, path>>

Next ==
    \/ Return
    \/ Attach
    \/ \E t \in ALLOWED_CALLBACKS : Trigger(t)
    \/ \E t \in ALLOWED_CALLBACKS : MayTrigger(t)
    \/ \E slug \in Slugs \cup {"ghost"}, resp \in CreateResponses :
          CreateShipment(slug, resp)
    \/ \E i \in LabelInputs : CreateLabel(i[1], i[2])
    \/ \E i \in CallbackInputs : HandleCallback(i[1], i[2])
    \/ \E resp \in StatusResponses : FetchAndUpdateStatus(resp)
    \/ \E resp \in CancelResponses : CancelShipment(resp)

Spec == Init /\ [][Next]_vars

\* The orchestrator from its first operation on: nothing exists until
\* create_shipment has the repository create the shipment, and the shipment
\* changes through the five operations only.
FlowInit ==
    /\ shipment = NoShipment
    /\ store = NoShipment
    /\ registry = Registry(<<"CarrierProvider", "BasicProvider">>, FALSE)
    /\ last = Idle
    /\ entry_points = << >>
    /\ tasks = [k \in Tasks |-> IdleTask]
    /\ path = << >>

FlowNext ==
    \/ Return
    \/ \E slug \in Slugs \cup {"ghost"}, resp \in CreateResponses :
          CreateShipment(slug, resp)
    \/ \E i \in LabelInputs : CreateLabel(i[1], i[2])
    \/ \E i \in CallbackInputs : HandleCallback(i[1], i[2])
    \/ \E resp \in StatusResponses : FetchAndUpdateStatus(resp)
    \/ \E resp \in CancelResponses : CancelShipment(resp)

SpecFlow == FlowInit /\ [][FlowNext]_vars

\* The built-in dummy integration, called directly on its shipment and
\* through the orchestrator.

\* provider.handle_callback({"status": status_value}, headers) on a
\* DummyProvider instance
DummyProviderHandleCallback(status_value) ==
    /\ last = Idle
    /\ shipment' = dummy_handle_callback(shipment, status_value).model
    /\ last' = Last("DummyProvider.handle_callback",
                    [status |-> status_value], shipment,
                    dummy_handle_callback(shipment, status_value).exc,
                    FALSE, 0,
                    dummy_handle_callback(shipment, status_value).fired)
    /\ UNCHANGED <<store, registry, entry_points, tasks, path>>

\* flow.handle_callback(shipment, {"status": status_value},
\* {"x-dummy-token": token}) for a shipment of the dummy integration
DummyHandleCallback(token, status_value) ==
    /\ Handed
    /\ Apply("handle_callback",
             [token |-> token, status |-> status_value,
              verify |-> dummy_verify_callback(token)]
               @@ DummyBehaviour(status_value),
             handle_callback(shipment, store, registry,
                             dummy_verify_callback(token),
                             DummyBehaviour(status_value)))

\* flow.fetch_and_update_status(shipment) for a shipment of the dummy
\* integration configured with status_override
DummyFetchAndUpdateStatus(status_override) ==
    /\ Handed
    /\ Apply("fetch_and_update_status",
             dummy_fetch_shipment_status(shipment, status_override),
             fetch_and_update_status(
               shipment, store, registry,
               dummy_fetch_shipment_status(shipment, status_override)))

DummyTokens == {"dummy-token", "wrong-token", ""}

\* a shipment of the dummy integration, of any status and field values; the
\* registry finds the integration by discovery
DummyInit ==
    /\ shipment \in
         {Shipment("shipment-1", st, "dummy", x, t, u, FALSE) :
            st \in ShipmentStatus,
            x \in ExternalIds \cup {""}, t \in TrackingNumbers \cup {""},
            u \in LabelUrls \cup {""}}
    /\ store = shipment
    /\ registry = Registry(<<>>, FALSE)
    /\ last = Idle
    /\ entry_points = << >>
    /\ tasks = [k \in Tasks |-> IdleTask]
    /\ path = << >>

DummyNext ==
    \/ Return
    \/ Attach
    \/ \E v \in StatusValues : DummyProviderHandleCallback(v)
    \/ \E token \in DummyTokens, v \in StatusValues :
          DummyHandleCallback(token, v)
    \/ \E v \in StatusValues : DummyFetchAndUpdateStatus(v)

SpecDummy == DummyInit /\ [][DummyNext]_vars

\* the transition engine on its own: attach, trigger and may_trigger on a
\* record the caller holds
EngineNext ==
    \/ Return
    \/ Attach
    \/ \E t \in ALLOWED_CALLBACKS : Trigger(t)
    \/ \E t \in ALLOWED_CALLBACKS : MayTrigger(t)

SpecEngine == Init /\ [][EngineNext]_vars

\* The lifetime of one shipment under the engine: path lists the statuses
\* the shipment has had since the engine was attached, in order.

\* create_shipment_machine(shipment); the first attach starts the path
LifetimeAttach ==
    /\ shipment' = create_shipment_machine(shipment)
    /\ path' = IF path = << >>
               THEN <<create_shipment_machine(shipment).status>>
               ELSE path
    /\ last' = Last("attach", [name |-> ""], shipment, NoExc, FALSE, 0, <<>>)
    /\ UNCHANGED <<store, registry, entry_points, tasks>>

\* shipment.<trigger>(); a trigger that succeeds adds the status it set
LifetimeTrigger(t) ==
    /\ shipment.attached
    /\ shipment' = EventTrigger(shipment, t).model
    /\ path' = IF EventTrigger(shipment, t).exc = NoExc
               THEN Append(path, EventTrigger(shipment, t).model.status)
               ELSE path
    /\ last' = Last("trigger", [name |-> t], shipment,
                    EventTrigger(shipment, t).exc, FALSE, 0, <<>>)
    /\ UNCHANGED <<store, registry, entry_points, tasks>>

\* a shipment record of any status and field values, not yet attached
LifetimeInit ==
    /\ shipment \in
         {Shipment("shipment-1", st, slug, x, t, u, FALSE) :
            st \in ShipmentStatus \cup {""}, slug \in Slugs,
            x \in ExternalIds \cup {""}, t \in TrackingNumbers \cup {""},
            u \in LabelUrls \cup {""}}
    /\ store = shipment
    /\ registry = Registry(<<"CarrierProvider", "BasicProvider">>, FALSE)
    /\ last = Idle
    /\ entry_points = << >>
    /\ tasks = [k \in Tasks |-> IdleTask]
    /\ path = << >>

LifetimeNext ==
    \/ LifetimeAttach
    \/ \E t \in ALLOWED_CALLBACKS : LifetimeTrigger(t)

SpecLifetime == LifetimeInit /\ [][LifetimeNext]_vars

\* A registry operation with outcome o (the registry it leaves and the
\* error it raises): the shipment plays no part; last.ret is what the
\* operation returned, last.calls tells whether it executed discover.
RegistryApply(op, arg, o, ret) ==
    /\ registry.discovered \/ registry.runs < MaxDiscoverRuns
    /\ registry' = o.reg
    /\ last' = Last(op, arg, NoShipment, o.exc, ret, 0,
                    IF o.reg.runs > registry.runs
                    THEN <<"registry.discover">> ELSE <<>>)
    /\ UNCHANGED <<shipment, store, entry_points, tasks, path>>

\* registry.register(provider_class)
Register(cls) ==
    /\ last = Idle
    /\ RegistryApply("register", [cls |-> cls], register(registry, cls),
                     FALSE)

\* registry.unregister(slug)
Unregister(slug) ==
    /\ last = Idle
    /\ RegistryApply("unregister", [slug |-> slug],
                     unregister(registry, slug), FALSE)

\* registry.get_by_slug(slug)
GetBySlug(slug) ==
    /\ last = Idle
    /\ RegistryApply("get_by_slug", [slug |-> slug],
                     get_by_slug(registry, slug),
                     get_by_slug(registry, slug).cls)

\* registry.get_choices()
GetChoices ==
    /\ last = Idle
    /\ RegistryApply("get_choices", [name |-> ""], get_choices(registry),
                     get_choices(registry).choices)

\* PluginRegistry(): nothing registered, discovery not run
RegistryInit ==
    /\ shipment = NoShipment
    /\ store = NoShipment
    /\ registry = Registry(<<>>, FALSE)
    /\ last = Idle
    /\ entry_points \in EntryPointLists
    /\ tasks = [k \in Tasks |-> IdleTask]
    /\ path = << >>

RegistryNext ==
    \/ Return
    \/ \E cls \in ProviderClasses : Register(cls)
    \/ \E slug \in LookupSlugs : Unregister(slug)
    \/ \E slug \in LookupSlugs : GetBySlug(slug)
    \/ GetChoices

\* the plugin registry on its own
SpecRegistry == RegistryInit /\ [][RegistryNext]_vars

-----------------------------------------------------------------------------
(* Operations running concurrently on one shipment instance.  An operation
   is a coroutine: it runs without interruption from one await to the next
   and may be overtaken by the others only while it awaits an integration
   call or a repository call. *)

\* the operations on a shipment the caller hands in
SuspendingOperations ==
    {"create_label", "handle_callback", "fetch_and_update_status",
     "cancel_shipment"}

\* the capability trait each of them requires of the provider
OperationCapability(op) ==
    CASE op = "create_label" -> "LabelProvider"
      [] op = "handle_callback" -> "PushCallbackProvider"
      [] op = "fetch_and_update_status" -> "PullStatusProvider"
      [] op = "cancel_shipment" -> "CancellableProvider"

\* the first integration call an operation awaits
FirstAwait(op) ==
    IF op = "handle_callback" THEN "provider.verify_callback" ELSE "provider"

\* what an operation does before its first await: the validators (in
\* create_label), the provider lookup, the capability gate and the attach
BeginOutcome(op, s, reg, p, v) ==
    IF op = "create_label"
    THEN IF v.exc # NoExc
         THEN [shipment |-> s, registry |-> reg, exc |-> v.exc]
         ELSE IF p.exc # NoExc
         THEN [shipment |-> create_shipment_machine(s), registry |-> p.reg,
               exc |-> p.exc]
         ELSE IF "LabelProvider" \notin Capabilities(p.cls)
         THEN [shipment |-> create_shipment_machine(s), registry |-> p.reg,
               exc |-> Exc("ProviderCapabilityError", "label creation", "")]
         ELSE [shipment |-> create_shipment_machine(s), registry |-> p.reg,
               exc |-> NoExc]
    ELSE IF p.exc # NoExc
    THEN [shipment |-> s, registry |-> p.reg, exc |-> p.exc]
    ELSE IF OperationCapability(op) \notin Capabilities(p.cls)
    THEN [shipment |-> s, registry |-> p.reg,
          exc |-> Exc("ProviderCapabilityError", op, "")]
    ELSE [shipment |-> create_shipment_machine(s), registry |-> p.reg,
          exc |-> NoExc]

\* task k leaves the step with the shipment as s: it is suspended at pc, or
\* done when exc is an error or pc is "done"; a change of the status
\* overtakes every other operation in progress
Proceed(k, s, pc, exc) ==
    /\ shipment' = s
    /\ tasks' =
         [j \in Tasks |->
            IF j = k
            THEN Task(tasks[k].op, IF exc # NoExc THEN "done" ELSE pc,
                      exc.type, tasks[k].overtaken)
            ELSE IF s.status # shipment.status /\ tasks[j].pc # "idle"
            THEN [tasks[j] EXCEPT !.overtaken = TRUE]
            ELSE tasks[j]]
    /\ UNCHANGED <<store, last, entry_points, path>>

Suspended(k, op, pc) == tasks[k].op = op /\ tasks[k].pc = pc

\* an operation starts and runs up to its first await
Begin(k, op, validators) ==
    /\ tasks[k].pc = "idle"
    /\ registry' = get_provider(registry, shipment).reg
    /\ LET o == BeginOutcome(op, shipment, registry,
                             get_provider(registry, shipment),
                             run_validators(LabelData(shipment), validators))
       IN  /\ shipment' = o.shipment
           /\ tasks' = [tasks EXCEPT ![k] =
                          Task(op, IF o.exc # NoExc THEN "done"
                                   ELSE FirstAwait(op),
                               o.exc.type, FALSE)]
    /\ UNCHANGED <<store, last, entry_points, path>>

\* fetch_and_update_status resumes with the carrier's answer: resolves the
\* status, triggers, and calls repository.save
FetchAnswered(k, resp) ==
    /\ Suspended(k, "fetch_and_update_status", "provider")
    /\ UNCHANGED registry
    /\ IF resp.exc # NoExc
       THEN Proceed(k, shipment, "done", call_provider(resp.exc))
       ELSE IF resolve_callback(resp.status).exc # NoExc
       THEN Proceed(k, shipment, "done", resolve_callback(resp.status).exc)
       ELSE IF resolve_callback(resp.status).cb = ""
       THEN Proceed(k, shipment, "repository.save", NoExc)
       ELSE Proceed(k,
                    flow_trigger(shipment,
                                 resolve_callback(resp.status).cb).model,
                    "repository.save",
                    flow_trigger(shipment,
                                 resolve_callback(resp.status).cb).exc)

\* cancel_shipment resumes with the carrier's answer
CancelAnswered(k, resp) ==
    /\ Suspended(k, "cancel_shipment", "provider")
    /\ UNCHANGED registry
    /\ IF resp.exc # NoExc
       THEN Proceed(k, shipment, "done", call_provider(resp.exc))
       ELSE IF ~resp.cancelled
       THEN Proceed(k, shipment, "done", NoExc)
       ELSE Proceed(k, flow_trigger(shipment, "cancel").model,
                    "repository.save", flow_trigger(shipment, "cancel").exc)

\* create_label resumes with the carrier's answer
LabelAnswered(k, resp) ==
    /\ Suspended(k, "create_label", "provider")
    /\ UNCHANGED registry
    /\ IF resp.exc # NoExc
       THEN Proceed(k, shipment, "done", call_provider(resp.exc))
       ELSE Proceed(k,
                    confirm_label_if_may(
                      [shipment EXCEPT !.label_url = resp.url]).model,
                    "repository.save",
                    confirm_label_if_may(
                      [shipment EXCEPT !.label_url = resp.url]).exc)

\* handle_callback resumes after verify_callback and calls the
\* integration's handle_callback
CallbackVerified(k, verify) ==
    /\ Suspended(k, "handle_callback", "provider.verify_callback")
    /\ UNCHANGED registry
    /\ Proceed(k, shipment, "provider", call_provider(verify))

\* the integration's handle_callback applies the callback and returns
CallbackHandled(k, h) ==
    /\ Suspended(k, "handle_callback", "provider")
    /\ UNCHANGED registry
    /\ Proceed(k, provider_handle_callback(shipment, h).model,
               "repository.save",
               call_provider(provider_handle_callback(shipment, h).exc))

\* repository.save writes the shipment as it is now and the operation
\* returns
Saved(k) ==
    /\ tasks[k].pc = "repository.save"
    /\ store' = Persisted(shipment)
    /\ tasks' = [tasks EXCEPT ![k].pc = "done"]
    /\ UNCHANGED <<shipment, registry, last, entry_points, path>>

\* the caller takes the outcome; the coroutine is gone
Finish(k) ==
    /\ tasks[k].pc = "done"
    /\ tasks' = [tasks EXCEPT ![k] = IdleTask]
    /\ UNCHANGED <<shipment, store, registry, last, entry_points, path>>

\* a shipment the repository holds, of any status, with the carrier that
\* implements every capability or the one that implements none
ConcurrentInit ==
    /\ shipment \in
         {Shipment("shipment-1", st, slug, "E1", t, u, FALSE) :
            st \in ShipmentStatus, slug \in Slugs,
            t \in TrackingNumbers \cup {""}, u \in {"", "https://l/1.pdf"}}
    /\ store = shipment
    /\ registry = Registry(<<"CarrierProvider", "BasicProvider">>, FALSE)
    /\ last = Idle
    /\ entry_points = << >>
    /\ tasks = [k \in Tasks |-> IdleTask]
    /\ path = << >>

ConcurrentNext ==
    \E k \in Tasks :
       \/ \E op \in SuspendingOperations, v \in ValidatorLists :
             Begin(k, op, v)
       \/ \E resp \in StatusResponses : FetchAnswered(k, resp)
       \/ \E resp \in CancelResponses : CancelAnswered(k, resp)
       \/ \E resp \in LabelResponses : LabelAnswered(k, resp)
       \/ \E verify \in ProviderRaises \cup {NoExc} :
             CallbackVerified(k, verify)
       \/ \E h \in CallbackBehaviours : CallbackHandled(k, h)
       \/ Saved(k)
       \/ Finish(k)

SpecConcurrent == ConcurrentInit /\ [][ConcurrentNext]_vars

-----------------------------------------------------------------------------
(* The transition table as the specification declares it (section 4.1),    *)
(* against which the engine is checked                                     *)

DeclaredEdges ==
    {[trigger |-> "confirm_created", source |-> {"new"},
      dest |-> "created", guard |-> "none"],
     [trigger |-> "confirm_label", source |-> {"created"},
      dest |-> "label_ready", guard |-> "label_url"],
     [trigger |-> "mark_in_transit", source |-> {"created", "label_ready"},
      dest |-> "in_transit", guard |-> "tracking_number"],
     [trigger |-> "mark_out_for_delivery", source |-> {"in_transit"},
      dest |-> "out_for_delivery", guard |-> "none"],
     [trigger |-> "mark_delivered",
      source |-> {"in_transit", "out_for_delivery"},
      dest |-> "delivered", guard |-> "none"],
     [trigger |-> "mark_returned",
      source |-> {"in_transit", "out_for_delivery", "delivered"},
      dest |-> "returned", guard |-> "none"],
     [trigger |-> "cancel", source |-> {"new", "created", "label_ready"},
      dest |-> "cancelled", guard |-> "none"],
     [trigger |-> "fail",
      source |-> {"new", "created", "label_ready", "in_transit",
                  "out_for_delivery"},
      dest |-> "failed", guard |-> "none"]}

DeclaredTriggers == {e.trigger : e \in DeclaredEdges}

DeclaredSources(trigger) ==
    UNION {e.source : e \in {d \in DeclaredEdges : d.trigger = trigger}}

GuardSatisfied(e, s) ==
    /\ e.guard = "label_url" => s.label_url # ""
    /\ e.guard = "tracking_number" => s.tracking_number # ""

\* the last operation was the engine trigger `name`
Triggered(name) == last.op = "trigger" /\ last.arg.name = name

\* C1: for each of the 8 declared edges, calling the trigger on a shipment
\* whose status is one of the edge's sources and whose guard is satisfied
\* raises nothing, sets status to the declared destination and changes no
\* other field of the shipment.
C1_DeclaredEdgeFires ==
    /\ Cardinality(DeclaredEdges) = 8
    /\ \A e \in DeclaredEdges :
          (/\ Triggered(e.trigger)
           /\ last.pre.status \in e.source
           /\ GuardSatisfied(e, last.pre))
          => /\ last.exc = NoExc
             /\ shipment = [last.pre EXCEPT !.status = e.dest]

C1_Witness ==
    /\ Triggered("mark_in_transit")
    /\ last.pre.status = "label_ready"
    /\ last.pre.tracking_number # ""
    /\ last.pre.external_id # ""
    /\ shipment.status = "in_transit"

\* C2: for every declared trigger and every status that is not one of its
\* declared sources, calling the trigger fails with a transition error
\* (the engine's MachineError; InvalidTransitionError when the
\* orchestrator's _trigger makes the attempt) and leaves the status
\* unchanged.
C2_NonSourceFails ==
    /\ \A t \in DeclaredTriggers :
          (Triggered(t) /\ last.pre.status \notin DeclaredSources(t))
          => /\ last.exc.type = "MachineError"
             /\ shipment.status = last.pre.status
    /\ (/\ last.op = "cancel_shipment"
        /\ \E i \in DOMAIN last.calls :
              last.calls[i] = "provider.cancel_shipment"
        /\ last.arg.exc = NoExc
        /\ last.arg.cancelled
        /\ last.pre.status \notin DeclaredSources("cancel"))
       => /\ last.exc.type = "InvalidTransitionError"
          /\ shipment.status = last.pre.status

C2_Witness ==
    /\ Triggered("mark_delivered")
    /\ last.pre.status = "new"
    /\ last.exc.type = "MachineError"
    /\ shipment.status = "new"

\* C3: confirm_label fails with a transition error whenever label_url is
\* empty, whatever the status, and the status is unchanged afterwards.
C3_ConfirmLabelNeedsUrl ==
    (Triggered("confirm_label") /\ last.pre.label_url = "")
    => /\ last.exc.type = "MachineError"
       /\ shipment.status = last.pre.status

C3_Witness ==
    /\ Triggered("confirm_label")
    /\ last.pre.label_url = ""
    /\ last.pre.status = "created"
    /\ last.exc.type = "MachineError"

\* C4: mark_in_transit fails whenever tracking_number is empty, whatever
\* the status, and the status is unchanged afterwards.
C4_InTransitNeedsTracking ==
    (Triggered("mark_in_transit") /\ last.pre.tracking_number = "")
    => /\ last.exc # NoExc
       /\ shipment.status = last.pre.status

C4_Witness ==
    /\ Triggered("mark_in_transit")
    /\ last.pre.tracking_number = ""
    /\ last.pre.status = "label_ready"
    /\ last.exc # NoExc

Absorbing == {"cancelled", "failed", "returned"}

\* C5: CANCELLED, FAILED and RETURNED are absorbing: each of the 8 triggers
\* fails there, and no step of the engine or of the orchestrator changes
\* the status of a shipment that is in one of them.
C5_AbsorbingStates ==
    /\ [](\A t \in DeclaredTriggers :
            (Triggered(t) /\ last.pre.status \in Absorbing)
            => last.exc.type = "MachineError")
    /\ [][shipment.status \in Absorbing
          => shipment'.status = shipment.status]_vars

C5_Witness ==
    /\ last.op = "handle_callback"
    /\ last.pre.status = "cancelled"
    /\ last.arg.callback = "fail"
    /\ last.arg.verify = NoExc
    /\ \E i \in DOMAIN last.calls :
          last.calls[i] = "provider.handle_callback"
    /\ shipment.status = "cancelled"

\* C6: from DELIVERED exactly one trigger succeeds, mark_returned, which
\* leads to RETURNED; each of the other 7 fails and leaves DELIVERED, also
\* with label_url and tracking_number set.
C6_DeliveredOnlyReturns ==
    \A t \in DeclaredTriggers :
       (Triggered(t) /\ last.pre.status = "delivered")
       => IF t = "mark_returned"
          THEN last.exc = NoExc /\ shipment.status = "returned"
          ELSE last.exc.type = "MachineError"
               /\ shipment.status = "delivered"

C6_Witness ==
    /\ Triggered("mark_in_transit")
    /\ last.pre.status = "delivered"
    /\ last.pre.label_url # ""
    /\ last.pre.tracking_number # ""
    /\ last.exc.type = "MachineError"

\* C7: may_trigger(name) returns true exactly when trigger(name) would
\* succeed in the same state (source matches and guard passes), and it
\* changes no field of the shipment.
C7_MayTriggerAgreesWithTrigger ==
    \A e \in DeclaredEdges :
       (last.op = "may_trigger" /\ last.arg.name = e.trigger)
       => /\ last.ret = (/\ last.pre.status \in e.source
                         /\ GuardSatisfied(e, last.pre))
          /\ shipment = last.pre

\* the last operation was the orchestrator operation op, and it got as far
\* as the integration call named call, which did not raise
Answered(op, call) ==
    /\ last.op = op
    /\ \E i \in 1..Len(last.calls) : last.calls[i] = call
    /\ last.arg.exc = NoExc

Count(calls, call) ==
    Cardinality({i \in 1..Len(calls) : calls[i] = call})

\* C8 as stated: when the carrier's cancel_shipment returns false the
\* status is unchanged, save is not invoked and the operation returns
\* false; when it returns true the shipment is CANCELLED, save was invoked
\* exactly once and the operation returns true.
C8_CancelAsStated ==
    Answered("cancel_shipment", "provider.cancel_shipment")
    => IF last.arg.cancelled
       THEN /\ last.exc = NoExc
            /\ shipment.status = "cancelled"
            /\ last.saves = 1
            /\ last.ret = TRUE
       ELSE /\ last.exc = NoExc
            /\ shipment.status = last.pre.status
            /\ last.saves = 0
            /\ last.ret = FALSE

\* C8 (amended): when the carrier's cancel_shipment returns false the
\* status and the persisted record are unchanged, save is not invoked and
\* the operation returns false; when it returns true and the status is
\* NEW, CREATED or LABEL_READY, the shipment is CANCELLED, save was invoked
\* exactly once, with the cancelled record, and the operation returns true.
C8_CancelWhenPermitted ==
    /\ [](Answered("cancel_shipment", "provider.cancel_shipment")
          => IF last.arg.cancelled
             THEN last.pre.status \in {"new", "created", "label_ready"}
                  => /\ last.exc = NoExc
                     /\ shipment.status = "cancelled"
                     /\ last.saves = 1
                     /\ Count(last.calls, "repository.save") = 1
                     /\ store = Persisted(shipment)
                     /\ last.ret = TRUE
             ELSE /\ last.exc = NoExc
                  /\ shipment.status = last.pre.status
                  /\ last.saves = 0
                  /\ Count(last.calls, "repository.save") = 0
                  /\ last.ret = FALSE)
    /\ [][(/\ last'.op = "cancel_shipment"
           /\ last'.arg.exc = NoExc
           /\ ~last'.arg.cancelled)
          => store' = store]_vars

C8_Witness ==
    /\ Answered("cancel_shipment", "provider.cancel_shipment")
    /\ last.arg.cancelled
    /\ last.pre.status = "label_ready"
    /\ shipment.status = "cancelled"
    /\ last.saves = 1
    /\ last.ret = TRUE

\* the status values of the fixed status-to-trigger table (section 4.4)
MappedStatusValues ==
    {"created", "label_ready", "in_transit", "out_for_delivery",
     "delivered", "returned", "cancelled", "failed"}

\* C9: fetch_and_update_status accepts only the 8 status values of the
\* status-to-trigger table: any other value that is not None, the raw
\* trigger names and "new" among them, makes it fail with the
\* unrecognized-status transition error, fire no trigger, leave the status
\* unchanged and not invoke save; the 8 values and None are not rejected
\* so.
C9_OnlyMappedStatusValues ==
    Answered("fetch_and_update_status", "provider.fetch_shipment_status")
    => IF last.arg.status \in MappedStatusValues \cup {None}
       THEN last.exc.msg # "Unknown status value"
       ELSE /\ last.exc =
                 Exc("InvalidTransitionError", "Unknown status value", "")
            /\ last.calls =
                 <<"provider.__init__", "provider.fetch_shipment_status">>
            /\ shipment.status = last.pre.status
            /\ last.saves = 0

C9_Witness ==
    /\ Answered("fetch_and_update_status", "provider.fetch_shipment_status")
    /\ last.arg.status = "cancel"
    /\ last.pre.status = "created"
    /\ last.exc.type = "InvalidTransitionError"
    /\ shipment.status = "created"

\* the integration calls of the five orchestrator operations
IntegrationCalls ==
    {<<"create_shipment", "provider.create_shipment">>,
     <<"create_label", "provider.create_label">>,
     <<"handle_callback", "provider.handle_callback">>,
     <<"fetch_and_update_status", "provider.fetch_shipment_status">>,
     <<"cancel_shipment", "provider.cancel_shipment">>}

DomainErrors ==
    {"SendParcelException", "CommunicationError", "InvalidCallbackError",
     "InvalidTransitionError", "ShipmentNotFoundError",
     "ProviderCapabilityError"}

\* the operation surfaced the foreign error e as a communication error and
\* did not invoke save
SurfacedAsCommunicationError(e) ==
    /\ last.exc = Exc("CommunicationError", e.msg, e.type)
    /\ last.saves = 0
    /\ Count(last.calls, "repository.save") = 0

\* C10: in each of the five orchestrator operations, an error raised inside
\* an integration call that is not a domain error surfaces as a
\* communication error whose context's original_error is the error's type
\* name and whose message is the error's message, and the invocation does
\* not invoke save.  (verify_callback is the second integration call of
\* handle_callback; an engine error raised by a trigger the integration
\* fires inside handle_callback is a foreign error too.)
C10_ForeignErrorsWrapped ==
    /\ \A c \in IntegrationCalls :
          (/\ last.op = c[1]
           /\ Count(last.calls, c[2]) = 1
           /\ last.arg.exc # NoExc
           /\ last.arg.exc.type \notin DomainErrors)
          => SurfacedAsCommunicationError(last.arg.exc)
    /\ (/\ last.op = "handle_callback"
        /\ Count(last.calls, "provider.verify_callback") = 1
        /\ last.arg.verify # NoExc
        /\ last.arg.verify.type \notin DomainErrors)
       => SurfacedAsCommunicationError(last.arg.verify)
    /\ (/\ last.op = "handle_callback"
        /\ Count(last.calls, "provider.handle_callback") = 1
        /\ last.arg.exc = NoExc
        /\ last.arg.callback # ""
        /\ ~last.arg.checked
        /\ last.pre.status \notin DeclaredSources(last.arg.callback))
       => /\ last.exc.type = "CommunicationError"
          /\ last.exc.original_error = "MachineError"
          /\ last.saves = 0

C10_Witness ==
    /\ last.op = "create_shipment"
    /\ last.arg.exc = Exc("ConnectError", "connection refused", "")
    /\ last.exc =
         Exc("CommunicationError", "connection refused", "ConnectError")
    /\ last.saves = 0
    /\ shipment.status = "new"

\* C11: a domain error raised inside an integration call (one of the five
\* integration operations, or verify_callback) reaches the caller as the
\* very error raised: same type, same message, same context; it is not
\* turned into a communication error and a communication error is not
\* wrapped again.
C11_DomainErrorsPassThrough ==
    /\ \A c \in IntegrationCalls :
          (/\ last.op = c[1]
           /\ Count(last.calls, c[2]) = 1
           /\ last.arg.exc.type \in DomainErrors)
          => last.exc = last.arg.exc
    /\ (/\ last.op = "handle_callback"
        /\ Count(last.calls, "provider.verify_callback") = 1
        /\ last.arg.verify.type \in DomainErrors)
       => last.exc = last.arg.verify

C11_Witness ==
    /\ last.op = "handle_callback"
    /\ last.calls = <<"provider.__init__", "provider.verify_callback">>
    /\ last.arg.verify = Exc("InvalidCallbackError", "bad signature", "")
    /\ last.exc = Exc("InvalidCallbackError", "bad signature", "")

\* a communication error the integration raised itself keeps its context
C11_WitnessNotRewrapped ==
    /\ last.op = "cancel_shipment"
    /\ last.arg.exc = Exc("CommunicationError", "carrier down", "Timeout")
    /\ last.exc = Exc("CommunicationError", "carrier down", "Timeout")

\* the optional operations, the capability interface each requires and its
\* integration calls
OptionalOperations ==
    {[op |-> "create_label", capability |-> "LabelProvider",
      calls |-> {"provider.create_label"}],
     [op |-> "handle_callback", capability |-> "PushCallbackProvider",
      calls |-> {"provider.verify_callback", "provider.handle_callback"}],
     [op |-> "fetch_and_update_status", capability |-> "PullStatusProvider",
      calls |-> {"provider.fetch_shipment_status"}],
     [op |-> "cancel_shipment", capability |-> "CancellableProvider",
      calls |-> {"provider.cancel_shipment"}]}

\* the integration of shipment s does not implement the capability
Lacks(s, capability) ==
    \A cls \in ProviderClasses :
       SlugOf(cls) = s.provider => capability \notin Capabilities(cls)

\* the last operation failed with a capability error without invoking any
\* of the integration operations in calls, changing the shipment or saving
RefusedAtGate(calls) ==
    /\ last.exc.type = "ProviderCapabilityError"
    /\ \A i \in DOMAIN last.calls : last.calls[i] \notin calls
    /\ Persisted(shipment) = Persisted(last.pre)
    /\ last.saves = 0
    /\ Count(last.calls, "repository.save") = 0

\* C12: for each optional operation, when the shipment's integration does
\* not implement the capability the operation needs, the operation fails
\* with a capability error before invoking any integration operation; the
\* shipment's status and fields are unchanged and save is not invoked.
C12_CapabilityGateAsStated ==
    \A o \in OptionalOperations :
       (last.op = o.op /\ Lacks(last.pre, o.capability))
       => RefusedAtGate(o.calls)

\* C13: a successful create_shipment returns a persisted shipment whose
\* external_id and tracking_number are the values the integration returned;
\* if the creation response carried a non-empty label url the shipment is
\* LABEL_READY with that label_url, otherwise it is CREATED with its
\* label_url untouched.
C13_CreateShipmentResult ==
    (last.op = "create_shipment" /\ last.exc = NoExc)
    => /\ store = Persisted(shipment)
       /\ last.saves = 1
       /\ Count(last.calls, "repository.save") = 1
       /\ shipment.external_id = last.arg.external_id
       /\ shipment.tracking_number = last.arg.tracking_number
       /\ IF last.arg.label_url # ""
          THEN /\ shipment.status = "label_ready"
               /\ shipment.label_url = last.arg.label_url
          ELSE /\ shipment.status = "created"
               /\ shipment.label_url = ""

C13_Witness ==
    /\ last.op = "create_shipment"
    /\ last.exc = NoExc
    /\ last.arg.label_url = "https://l/1.pdf"
    /\ last.arg.external_id = "E1"
    /\ shipment.status = "label_ready"
    /\ shipment.label_url = "https://l/1.pdf"
    /\ shipment.external_id = "E1"
    /\ store = Persisted(shipment)

\* the other case of C13: no label in the response
C13_WitnessNoLabel ==
    /\ last.op = "create_shipment"
    /\ last.exc = NoExc
    /\ last.arg.label_url = ""
    /\ shipment.status = "created"
    /\ store = Persisted(shipment)

\* C14: create_shipment with a slug the registry does not know (after
\* discovery) fails with the lookup's not-found error (KeyError) before
\* anything is created: repository.create and save are not invoked, no
\* integration is constructed or called, and there is no shipment.
C14_UnknownSlugCreatesNothing ==
    (last.op = "create_shipment"
       /\ ProvidersGet(registry, last.arg.slug) = "")
    => /\ last.exc = Exc("KeyError", last.arg.slug, "")
       /\ last.calls = <<>>
       /\ last.saves = 0
       /\ shipment = NoShipment
       /\ store = NoShipment

C14_Witness ==
    /\ last.op = "create_shipment"
    /\ last.arg.slug = "ghost"
    /\ registry.discovered
    /\ last.exc.type = "KeyError"
    /\ last.calls = <<>>
    /\ store = NoShipment

\* C15: create_label on a shipment at CREATED, when the integration's
\* create_label returns a non-empty url, ends with status LABEL_READY,
\* label_url equal to the returned url, and the shipment persisted.
C15_CreateLabelFromCreated ==
    (/\ Answered("create_label", "provider.create_label")
     /\ last.arg.url # ""
     /\ last.pre.status = "created")
    => /\ last.exc = NoExc
       /\ shipment.status = "label_ready"
       /\ shipment.label_url = last.arg.url
       /\ store = Persisted(shipment)
       /\ last.saves = 1
       /\ Count(last.calls, "repository.save") = 1

C15_Witness ==
    /\ Answered("create_label", "provider.create_label")
    /\ last.pre.status = "created"
    /\ last.pre.label_url = ""
    /\ last.arg.url = "https://l/2.pdf"
    /\ shipment.status = "label_ready"
    /\ shipment.label_url = "https://l/2.pdf"
    /\ store = Persisted(shipment)

\* the status-to-trigger table as section 4.4 states it
DeclaredStatusTrigger(status) ==
    CASE status = "created" -> "confirm_created"
      [] status = "label_ready" -> "confirm_label"
      [] status = "in_transit" -> "mark_in_transit"
      [] status = "out_for_delivery" -> "mark_out_for_delivery"
      [] status = "delivered" -> "mark_delivered"
      [] status = "returned" -> "mark_returned"
      [] status = "cancelled" -> "cancel"
      [] status = "failed" -> "fail"

\* the trigger is permitted on shipment s: s is at a declared source of it
\* and the guard of that edge is satisfied
Permitted(trigger, s) ==
    \E e \in DeclaredEdges :
       /\ e.trigger = trigger
       /\ s.status \in e.source
       /\ GuardSatisfied(e, s)

\* C16: fetch_and_update_status fires the trigger the status-to-trigger
\* table assigns to the status the carrier reported, at most once, and no
\* other trigger; when that trigger is permitted it fires, the shipment
\* ends at the reported status and is persisted.
C16_ReportedStatusTrigger ==
    (/\ Answered("fetch_and_update_status", "provider.fetch_shipment_status")
     /\ last.arg.status \in MappedStatusValues)
    => LET t == DeclaredStatusTrigger(last.arg.status)
       IN  /\ \A i \in DOMAIN last.calls :
                 last.calls[i] \in DeclaredTriggers => last.calls[i] = t
           /\ Count(last.calls, t) <= 1
           /\ Permitted(t, last.pre)
              => /\ last.exc = NoExc
                 /\ Count(last.calls, t) = 1
                 /\ shipment.status = last.arg.status
                 /\ store = Persisted(shipment)
                 /\ last.saves = 1

C16_Witness ==
    /\ Answered("fetch_and_update_status", "provider.fetch_shipment_status")
    /\ last.pre.status = "in_transit"
    /\ last.arg.status = "delivered"
    /\ last.calls = <<"provider.__init__", "provider.fetch_shipment_status",
                      "mark_delivered", "repository.save">>
    /\ shipment.status = "delivered"
    /\ store = Persisted(shipment)

\* C17: fetch_and_update_status persists unconditionally on success: when
\* the carrier's response has no status (None), no trigger is fired, the
\* status is unchanged and save is invoked exactly once.
C17_NoStatusStillSaves ==
    (/\ Answered("fetch_and_update_status", "provider.fetch_shipment_status")
     /\ last.arg.status = None)
    => /\ last.exc = NoExc
       /\ \A i \in DOMAIN last.calls : last.calls[i] \notin DeclaredTriggers
       /\ shipment.status = last.pre.status
       /\ last.saves = 1
       /\ Count(last.calls, "repository.save") = 1
       /\ store = Persisted(shipment)

C17_Witness ==
    /\ Answered("fetch_and_update_status", "provider.fetch_shipment_status")
    /\ last.arg.status = None
    /\ last.pre.status = "in_transit"
    /\ shipment.status = "in_transit"
    /\ last.calls = <<"provider.__init__", "provider.fetch_shipment_status",
                      "repository.save">>

\* the positions of call in the calls of the last operation
Positions(call) == {i \in DOMAIN last.calls : last.calls[i] = call}

\* every occurrence of call a in the last operation precedes every
\* occurrence of call b
Precedes(a, b) == \A i \in Positions(a), j \in Positions(b) : i < j

\* C18: handle_callback invokes verify_callback strictly before the
\* integration's handle_callback and persists after both (once, when both
\* returned); when verify_callback rejects the callback, the integration's
\* handle_callback is never invoked, the shipment's status is unchanged and
\* save is not invoked.
C18_VerifyThenHandleThenSave ==
    last.op = "handle_callback"
    => /\ Positions("provider.handle_callback") # {}
          => Positions("provider.verify_callback") # {}
       /\ Precedes("provider.verify_callback", "provider.handle_callback")
       /\ Positions("repository.save") # {}
          => /\ Positions("provider.verify_callback") # {}
             /\ Positions("provider.handle_callback") # {}
       /\ Precedes("provider.verify_callback", "repository.save")
       /\ Precedes("provider.handle_callback", "repository.save")
       /\ last.exc = NoExc
          => /\ Count(last.calls, "provider.verify_callback") = 1
             /\ Count(last.calls, "provider.handle_callback") = 1
             /\ Count(last.calls, "repository.save") = 1
             /\ last.saves = 1
             /\ store = Persisted(shipment)
       /\ (Positions("provider.verify_callback") # {}
             /\ last.arg.verify # NoExc)
          => /\ last.exc # NoExc
             /\ Positions("provider.handle_callback") = {}
             /\ shipment.status = last.pre.status
             /\ Positions("repository.save") = {}
             /\ last.saves = 0

C18_Witness ==
    /\ last.op = "handle_callback"
    /\ last.arg.verify = Exc("InvalidCallbackError", "bad signature", "")
    /\ last.pre.status = "created"
    /\ last.calls = <<"provider.__init__", "provider.verify_callback">>
    /\ last.exc.type = "InvalidCallbackError"
    /\ shipment.status = "created"
    /\ last.saves = 0

\* the accepting case of C18: verified, handled, then saved
C18_WitnessAccepted ==
    /\ last.op = "handle_callback"
    /\ last.pre.status = "in_transit"
    /\ last.calls = <<"provider.__init__", "provider.verify_callback",
                      "provider.handle_callback", "mark_delivered",
                      "repository.save">>
    /\ shipment.status = "delivered"

\* the types a registry holds
Registered(reg) == {reg.providers[i] : i \in DOMAIN reg.providers}

\* C19: registering a type under a slug already held by a different type
\* fails with the duplicate-slug error and leaves the registry unchanged
\* (the slug still maps to the first type); registering a type that is
\* already registered raises nothing and changes neither the mapping nor
\* the registration order.
C19_RegisterDuplicate ==
    [][\A cls \in ProviderClasses :
          (last'.op = "register" /\ last'.arg.cls = cls)
          => /\ (\E c \in Registered(registry) :
                    c # cls /\ SlugOf(c) = SlugOf(cls))
                => /\ last'.exc =
                        Exc("ValueError", "Duplicate provider slug", "")
                   /\ registry' = registry
             /\ cls \in Registered(registry)
                => /\ last'.exc = NoExc
                   /\ registry' = registry]_vars

C19_Witness ==
    /\ last.op = "register"
    /\ last.arg.cls = "ShadowProvider"
    /\ last.exc = Exc("ValueError", "Duplicate provider slug", "")
    /\ registry.providers = <<"CarrierProvider", "DummyProvider">>

\* the other case of C19: the identical type again
C19_WitnessSameType ==
    /\ last.op = "register"
    /\ last.arg.cls = "CarrierProvider"
    /\ last.exc = NoExc
    /\ registry.providers = <<"CarrierProvider", "BasicProvider">>

\* C20: lazy discovery runs at most once per registry instance: over any
\* sequence of get_by_slug and get_choices calls, interleaved with register
\* and unregister and including calls during which discovery or the lookup
\* fails, discover is executed by at most one of the calls.
C20_DiscoversAtMostOnce == registry.runs <= 1

\* the positions in the registration order of the user-selectable types
SelectablePositions(reg) ==
    {i \in DOMAIN reg.providers : UserSelectable(reg.providers[i])}

\* C21: get_choices returns exactly the (slug, display name) pairs of the
\* registered integrations flagged user-selectable, in registration order;
\* an integration that is not user-selectable is absent from that list
\* but still returned by get_by_slug (a lookup whose discovery fails
\* returns nothing and is left aside).
C21_ChoicesSelectableInOrder ==
    /\ (last.op = "get_choices" /\ last.exc = NoExc)
       => /\ Len(last.ret) = Cardinality(SelectablePositions(registry))
          /\ \A i \in SelectablePositions(registry) :
                LET k == Cardinality({j \in SelectablePositions(registry) :
                                        j <= i})
                IN  last.ret[k] = <<SlugOf(registry.providers[i]),
                                    DisplayName(registry.providers[i])>>
          /\ \A i \in DOMAIN registry.providers :
                ~UserSelectable(registry.providers[i])
                => \A k \in DOMAIN last.ret :
                      last.ret[k][1] # SlugOf(registry.providers[i])
    /\ (last.op = "get_by_slug"
        /\ last.exc.type \notin {"ValueError", "ImportError"})
       => \A c \in Registered(registry) :
             SlugOf(c) = last.arg.slug
             => last.exc = NoExc /\ last.ret = c

C21_Witness ==
    /\ last.op = "get_choices"
    /\ registry.providers =
         <<"CarrierProvider", "BasicProvider", "DummyProvider">>
    /\ last.ret = <<<<"carrier", "Carrier">>, <<"dummy", "Dummy">>>>

\* the other half of C21: the type that is not user-selectable is found
C21_WitnessHiddenFound ==
    /\ last.op = "get_by_slug"
    /\ last.arg.slug = "basic"
    /\ last.ret = "BasicProvider"

\* C22: unregister(slug) removes the slug if present and raises nothing
\* if it is absent, leaving every other slug's mapping (and the order)
\* unchanged; from then on get_by_slug(slug) fails with the not-found
\* error (KeyError) until that slug is registered again.
C22_UnregisterAsStated ==
    /\ [][last'.op = "unregister"
          => /\ last'.exc = NoExc
             /\ registry'.providers =
                  SelectSeq(registry.providers,
                            LAMBDA c : SlugOf(c) # last'.arg.slug)]_vars
    /\ []((last.op = "get_by_slug" /\ last.arg.slug \in registry.removed)
          => last.exc = Exc("KeyError", last.arg.slug, ""))

\* the entries that resolve to a valid integration type
ValidEntries ==
    {entry_points[i] : i \in DOMAIN entry_points} \cap ProviderClasses

\* the step ran discovery from a lookup
LookupDiscovered ==
    /\ last.op \in {"get_by_slug", "get_choices"}
    /\ \E i \in DOMAIN last.calls : last.calls[i] = "registry.discover"

\* C23: during discovery, every externally contributed entry that fails to
\* resolve to a valid integration type is skipped and never raised:
\* discovery completes, the remaining valid entries and the built-in set
\* are registered, and the call that triggered discovery does not fail
\* because of the bad entry (a duplicate slug, which is no bad entry, is
\* left aside).
C23_BadEntriesSkipped ==
    (LookupDiscovered /\ last.exc.type # "ValueError")
    => /\ last.exc.type # "ImportError"
       /\ registry.discovered
       /\ ValidEntries \cup {"DummyProvider"} \subseteq Registered(registry)

\* the position of the first rejecting validator, or the length of the list
LastValidatorRun(validators) ==
    IF Rejecting(validators)
    THEN CHOOSE i \in DOMAIN validators :
           /\ validators[i] = "reject"
           /\ \A j \in 1..(i - 1) : validators[j] # "reject"
    ELSE Len(validators)

\* C24: the validator pipeline runs the validators in list order, each
\* receiving the context returned by the previous one; when a validator
\* fails in create_label, no later validator runs, the integration's
\* create_label is not invoked, the shipment's status and label_url are
\* unchanged and save is not invoked.
C24_ValidatorsInOrder ==
    last.op = "create_label"
    => /\ Len(last.validated) = LastValidatorRun(last.arg.validators)
       /\ \A i \in DOMAIN last.validated :
             /\ last.validated[i].validator = last.arg.validators[i]
             /\ last.validated[i].data =
                  IF i = 1 THEN LabelData(last.pre)
                  ELSE ValidatorReturn(last.validated[i - 1].validator,
                                       last.validated[i - 1].data)
       /\ Rejecting(last.arg.validators)
          => /\ last.exc = Exc("ValueError", "rejected", "")
             /\ \A i \in DOMAIN last.calls :
                   last.calls[i] \notin
                     {"provider.create_label", "repository.save"}
             /\ last.saves = 0
             /\ shipment.status = last.pre.status
             /\ shipment.label_url = last.pre.label_url

\* a rejecting validator with one after it that never runs, on a shipment
\* a label could have been made for
C24_Witness ==
    /\ last.op = "create_label"
    /\ last.arg.validators = <<"reject", "stamp">>
    /\ Len(last.validated) = 1
    /\ last.pre.status = CREATED
    /\ last.pre.provider = "carrier"

\* a rejecting validator receives what the one before it returned
C24_WitnessThreaded ==
    /\ last.op = "create_label"
    /\ last.arg.validators = <<"stamp", "reject">>
    /\ last.validated[2].data.notes = <<"stamped">>

\* the whole list runs and the label is made
C24_WitnessAllPass ==
    /\ last.op = "create_label"
    /\ last.arg.validators = <<"stamp", "ok">>
    /\ last.validated[2].data.notes = <<"stamped">>
    /\ last.saves = 1

\* C25: attach (create_shipment_machine) sets the machine's initial state
\* to the shipment's current status if set, else NEW, and is idempotent:
\* attaching any number of times to the same shipment leaves status and
\* all other fields as after one attach, and every subsequent
\* trigger/may_trigger behaves exactly as after a single attach.
C25_AttachIdempotent ==
    /\ [](last.op = "attach"
          => /\ shipment.status =
                  IF last.pre.status # "" THEN last.pre.status
                  ELSE STATUS_NEW
             /\ [shipment EXCEPT !.status = "", !.attached = FALSE] =
                [last.pre EXCEPT !.status = "", !.attached = FALSE])
    /\ [][(last'.op = "attach" /\ shipment.attached)
          => /\ shipment' = shipment
             /\ \A t \in ALLOWED_CALLBACKS :
                   /\ EventTrigger(shipment', t) = EventTrigger(shipment, t)
                   /\ may_trigger(shipment', t) = may_trigger(shipment, t)]_vars

\* a shipment attached before, moved on by a trigger, is attached again
C25_Witness ==
    /\ last.op = "attach"
    /\ last.pre.attached
    /\ last.pre.status = IN_TRANSIT
    /\ shipment = last.pre

\* the first attach of a shipment without a status
C25_WitnessNoStatus ==
    /\ last.op = "attach"
    /\ last.pre.status = ""
    /\ shipment.status = STATUS_NEW

\* the trigger the last fetch_and_update_status or cancel_shipment
\* attempted, "" if it attempted none
AttemptedTrigger ==
    IF /\ Answered("cancel_shipment", "provider.cancel_shipment")
       /\ last.arg.cancelled
    THEN "cancel"
    ELSE IF /\ Answered("fetch_and_update_status",
                        "provider.fetch_shipment_status")
            /\ last.arg.status \in MappedStatusValues
    THEN DeclaredStatusTrigger(last.arg.status)
    ELSE ""

\* C26: whenever fetch_and_update_status or cancel_shipment attempts a
\* trigger that is not allowed, whether because the current status is not
\* a source of the edge or because the edge's guard is unmet, the
\* operation fails with a transition error (a domain error), the status is
\* unchanged and save is not invoked.
C26_DisallowedTriggerIsTransitionError ==
    (AttemptedTrigger # "" /\ ~Permitted(AttemptedTrigger, last.pre))
    => /\ last.exc.type = "InvalidTransitionError"
       /\ shipment.status = last.pre.status
       /\ last.saves = 0
       /\ Count(last.calls, "repository.save") = 0

\* C27: in create_label the capability gate precedes the validator
\* pipeline: for a shipment whose integration lacks the label capability,
\* create_label fails with a capability error without running any
\* validator.
C27_GateBeforeValidators ==
    (last.op = "create_label" /\ Lacks(last.pre, "LabelProvider"))
    => /\ last.exc.type = "ProviderCapabilityError"
       /\ last.validated = <<>>
       /\ Count(last.calls, "validator") = 0

\* C28: cancel_shipment on a shipment whose status is not NEW, CREATED or
\* LABEL_READY, with a carrier that confirms cancellation (returns true),
\* fails with a transition error after the carrier's cancel operation has
\* already been invoked; the status is unchanged and save is not invoked.
C28_LateCancelFailsAfterCarrier ==
    (/\ last.op = "cancel_shipment"
     /\ ~Lacks(last.pre, "CancellableProvider")
     /\ last.arg.exc = NoExc
     /\ last.arg.cancelled
     /\ last.pre.status \notin {STATUS_NEW, CREATED, LABEL_READY})
    => /\ last.exc.type = "InvalidTransitionError"
       /\ Count(last.calls, "provider.cancel_shipment") = 1
       /\ Count(last.calls, "cancel") = 0
       /\ shipment.status = last.pre.status
       /\ last.saves = 0
       /\ Count(last.calls, "repository.save") = 0

C28_Witness ==
    /\ last.op = "cancel_shipment"
    /\ last.arg.exc = NoExc
    /\ last.arg.cancelled
    /\ last.pre.status = IN_TRANSIT
    /\ last.exc.type = "InvalidTransitionError"
    /\ shipment.status = IN_TRANSIT

\* the five operations of the orchestrator
FlowOperations ==
    {"create_shipment", "create_label", "handle_callback",
     "fetch_and_update_status", "cancel_shipment"}

C29_WitnessFailure ==
    /\ last.op = "create_label"
    /\ last.exc # NoExc
    /\ Count(last.calls, "provider.create_label") = 1
    /\ Count(last.calls, "confirm_label") = 1
    /\ last.saves = 0

\* C30: under arbitrary interleaving of concurrently running orchestrator
\* operations on the same shipment instance (each suspending at its
\* integration calls and persistence calls), every change of status still
\* follows a declared edge whose source is the status at the moment of the
\* change; no interleaving makes a shipment leave CANCELLED, FAILED or
\* RETURNED.
C30_InterleavedChangesFollowEdges ==
    [][/\ shipment'.status # shipment.status
          => \E e \in DeclaredEdges :
                /\ shipment.status \in e.source
                /\ shipment'.status = e.dest
                /\ GuardSatisfied(e, shipment')
       /\ shipment.status \in {"cancelled", "failed", "returned"}
          => shipment'.status = shipment.status]_vars

\* a cancel_shipment that was overtaken while it awaited the carrier: the
\* shipment, which could only have been at a source of cancel when the
\* operation began, went in transit meanwhile, and the cancel was refused
C30_Witness ==
    \E k \in Tasks :
       /\ tasks[k] =
            Task("cancel_shipment", "done", "InvalidTransitionError", TRUE)
       /\ shipment.status = IN_TRANSIT

\* two operations past their integration calls at once, one of them
\* overtaken by the transition of the other
C30_WitnessBothSaving ==
    /\ \A k \in Tasks : tasks[k].pc = "repository.save"
    /\ \E k \in Tasks : tasks[k].overtaken
    /\ shipment.status = "delivered"

\* C31: the transition graph is acyclic and NEW has no incoming edge:
\* along any sequence of triggers a shipment never re-enters a status it
\* has left, and at most 6 triggers succeed in a shipment's lifetime (NEW,
\* CREATED, LABEL_READY, IN_TRANSIT, OUT_FOR_DELIVERY, DELIVERED, RETURNED
\* being the longest path).
C31_NoStatusReentered ==
    /\ \A i, j \in DOMAIN path : i # j => path[i] # path[j]
    /\ \A i \in DOMAIN path : i > 1 => path[i] # STATUS_NEW
    /\ Len(path) <= 7
    /\ path # << >> => path[Len(path)] = shipment.status

\* the longest path: six triggers have succeeded
C31_Witness ==
    path = <<STATUS_NEW, CREATED, LABEL_READY, IN_TRANSIT, OUT_FOR_DELIVERY,
             DELIVERED, RETURNED>>

\* C32: in every state reachable by any sequence of orchestrator
\* operations starting from create_shipment, a shipment whose status is
\* LABEL_READY has a non-empty label_url (including after a further
\* create_label whose integration response carries no url).
C32_LabelReadyHasLabelUrl ==
    /\ shipment.status = LABEL_READY => shipment.label_url # ""
    /\ store.status = LABEL_READY => store.label_url # ""

\* the statuses of a shipment the carrier has taken over
Underway == {IN_TRANSIT, OUT_FOR_DELIVERY, DELIVERED, RETURNED}

\* C33: in every state reachable by any sequence of orchestrator
\* operations starting from create_shipment (integrations changing status
\* only through the guarded triggers), a shipment whose status is
\* IN_TRANSIT, OUT_FOR_DELIVERY, DELIVERED or RETURNED has a non-empty
\* tracking_number.
C33_UnderwayHasTrackingNumber ==
    /\ shipment.status \in Underway => shipment.tracking_number # ""
    /\ store.status \in Underway => store.tracking_number # ""

\* a shipment that went all the way and was persisted there
C33_Witness ==
    /\ shipment.status = RETURNED
    /\ shipment.tracking_number = "T1"
    /\ store = Persisted(shipment)

\* a shipment without tracking number was kept out of transit
C33_WitnessRefused ==
    /\ last.op = "fetch_and_update_status"
    /\ last.arg.status = IN_TRANSIT
    /\ last.pre.tracking_number = ""
    /\ last.pre.status = CREATED
    /\ shipment.status = CREATED

\* C34: when the integration's create_shipment call fails inside
\* orchestrator create_shipment, the shipment record already created by
\* the persistence collaborator stays at status NEW with external_id,
\* tracking_number and label_url untouched: no trigger (in particular not
\* fail) is fired and save is never invoked for it.
C34_FailedCreateLeavesNewRecord ==
    (/\ last.op = "create_shipment"
     /\ last.arg.slug \in Slugs
     /\ last.arg.exc # NoExc)
    => /\ last.exc = call_provider(last.arg.exc)
       /\ store = Persisted(Shipment("shipment-1", STATUS_NEW, last.arg.slug,
                                     "", "", "", FALSE))
       /\ shipment.status = STATUS_NEW
       /\ shipment.external_id = ""
       /\ shipment.tracking_number = ""
       /\ shipment.label_url = ""
       /\ \A i \in DOMAIN last.calls : last.calls[i] \notin ALLOWED_CALLBACKS
       /\ last.saves = 0
       /\ Count(last.calls, "repository.save") = 0

\* the integration was called, failed with a foreign error, and the record
\* the repository created is there at NEW
C34_Witness ==
    /\ last.op = "create_shipment"
    /\ last.arg.exc.type = "RuntimeError"
    /\ last.exc.type = "CommunicationError"
    /\ Count(last.calls, "repository.create") = 1
    /\ Count(last.calls, "provider.create_shipment") = 1
    /\ store.id = "shipment-1"
    /\ store.status = STATUS_NEW

\* C35: fetch_and_update_status is not idempotent on repeated reports: for
\* every status s other than NEW, when the carrier reports the status s
\* that the shipment already has, the mapped trigger is not permitted from
\* s, so the operation fails with a transition error, leaves the status at
\* s and does not persist.
C35_RepeatedReportRefused ==
    (/\ Answered("fetch_and_update_status", "provider.fetch_shipment_status")
     /\ last.arg.status = last.pre.status
     /\ last.pre.status # STATUS_NEW)
    => /\ ~may_trigger(last.pre, DeclaredStatusTrigger(last.arg.status))
       /\ last.exc = Exc("InvalidTransitionError",
                         "cannot be executed from status", "")
       /\ \A i \in DOMAIN last.calls : last.calls[i] \notin ALLOWED_CALLBACKS
       /\ shipment.status = last.pre.status
       /\ last.saves = 0
       /\ Count(last.calls, "repository.save") = 0

\* a delivered shipment reported delivered once more, guards satisfied
C35_Witness ==
    /\ last.op = "fetch_and_update_status"
    /\ last.arg.status = DELIVERED
    /\ last.pre.status = DELIVERED
    /\ last.pre.tracking_number # ""
    /\ last.exc.type = "InvalidTransitionError"
    /\ shipment.status = DELIVERED

\* C36: create_label on a shipment whose status is not CREATED
\* (LABEL_READY, IN_TRANSIT, or a terminal state such as CANCELLED) with a
\* label-capable integration still invokes the integration's create_label,
\* overwrites label_url with the returned url (empty string if none),
\* leaves the status unchanged, and persists exactly once without raising.
C36_LabelOutsideCreated ==
    (/\ last.op = "create_label"
     /\ ~Rejecting(last.arg.validators)
     /\ ~Lacks(last.pre, "LabelProvider")
     /\ last.pre.status # CREATED)
    => /\ Count(last.calls, "provider.create_label") = 1
       /\ last.arg.exc = NoExc
          => /\ last.exc = NoExc
             /\ shipment.label_url = last.arg.url
             /\ shipment.status = last.pre.status
             /\ \A i \in DOMAIN last.calls :
                   last.calls[i] \notin ALLOWED_CALLBACKS
             /\ last.saves = 1
             /\ Count(last.calls, "repository.save") = 1
             /\ store = Persisted(shipment)

\* a response without url empties the label_url of a shipment in transit
C36_Witness ==
    /\ last.op = "create_label"
    /\ last.pre.status = IN_TRANSIT
    /\ last.pre.label_url = "https://l/1.pdf"
    /\ last.arg.exc = NoExc
    /\ last.arg.url = ""
    /\ shipment.label_url = ""
    /\ shipment.status = IN_TRANSIT
    /\ last.saves = 1

\* a cancelled shipment gets a new label url
C36_WitnessTerminal ==
    /\ last.op = "create_label"
    /\ last.pre.status = CANCELLED
    /\ last.pre.label_url = "https://l/1.pdf"
    /\ shipment.label_url = "https://l/2.pdf"
    /\ store = Persisted(shipment)

\* the last step was DummyProvider.handle_callback with a status value
\* that stands for trigger t, which is permitted
DummyCallbackPermitted(t) ==
    /\ last.op = "DummyProvider.handle_callback"
    /\ last.pre.attached
    /\ last.arg.status \notin {None, ""}
    /\ t = IF last.arg.status \in MappedStatusValues
           THEN DeclaredStatusTrigger(last.arg.status)
           ELSE last.arg.status
    /\ Permitted(t, last.pre)

\* C37: the built-in dummy integration's handle_callback never raises: for
\* every shipment state and every status value in the callback data, it
\* either applies the transition mapped to that value or, when the value
\* is empty/missing or the transition is not currently allowed (source
\* mismatch or unmet guard), leaves the shipment unchanged.
C37_DummyCallbackNeverRaises ==
    last.op = "DummyProvider.handle_callback"
    => /\ last.exc = NoExc
       /\ IF \E t \in DeclaredTriggers : DummyCallbackPermitted(t)
          THEN \E e \in DeclaredEdges :
                  /\ DummyCallbackPermitted(e.trigger)
                  /\ last.pre.status \in e.source
                  /\ shipment = [last.pre EXCEPT !.status = e.dest]
          ELSE shipment = last.pre

\* C38: on the push channel of the built-in dummy integration, a callback
\* whose status value is not in the status-to-trigger table is used as a
\* trigger name itself: orchestrator handle_callback with data status
\* equal to a raw trigger name and a valid token fires that trigger when it
\* is permitted and persists the new status, unlike
\* fetch_and_update_status which rejects the same value.
C38_RawTriggerOnPushChannel ==
    /\ (/\ last.op = "handle_callback"
        /\ last.arg.token = "dummy-token"
        /\ last.arg.status \in DeclaredTriggers
        /\ Permitted(last.arg.status, last.pre))
       => /\ last.exc = NoExc
          /\ Count(last.calls, last.arg.status) = 1
          /\ \E e \in DeclaredEdges :
                /\ e.trigger = last.arg.status
                /\ last.pre.status \in e.source
                /\ shipment.status = e.dest
          /\ last.saves = 1
          /\ store = Persisted(shipment)
    /\ (/\ last.op = "fetch_and_update_status"
        /\ last.arg.status \in DeclaredTriggers)
       => /\ last.exc =
               Exc("InvalidTransitionError", "Unknown status value", "")
          /\ \A i \in DOMAIN last.calls :
                last.calls[i] \notin ALLOWED_CALLBACKS
          /\ shipment.status = last.pre.status
          /\ last.saves = 0

\* "cancel" as the status of a push callback cancels a created shipment
C38_Witness ==
    /\ last.op = "handle_callback"
    /\ last.arg.token = "dummy-token"
    /\ last.arg.status = "cancel"
    /\ last.pre.status = CREATED
    /\ shipment.status = CANCELLED
    /\ store.status = CANCELLED

\* "cancel" as the status the dummy integration reports is rejected
C38_WitnessPullRejects ==
    /\ last.op = "fetch_and_update_status"
    /\ last.arg.status = "cancel"
    /\ last.pre.status = CREATED
    /\ last.exc.type = "InvalidTransitionError"
    /\ shipment.status = CREATED

====
